---- MODULE Spec2Model ----
(***************************************************************************)
(* Call orchestration (anony/core/calls.py, class TgCall) and media        *)
(* acquisition (anony/core/youtube.py, class YouTube).                     *)
(*                                                                         *)
(* Scheduling is asyncio's: one coroutine runs at a time and control       *)
(* changes hands only at an await that really suspends (transport calls,   *)
(* message send/edit/delete, downloads, sleeps).  The variable `running`   *)
(* names the task that is in the middle of a synchronous section; calls    *)
(* to the in-memory stores (db, queue) do not suspend.                     *)
(***************************************************************************)
EXTENDS Integers, Sequences, FiniteSets, TLC

\* ------------------------------------------------------------------------
\*  Bounds
\* ------------------------------------------------------------------------
NumTasks == 2
NumMedia == 2
MaxQueue == 2
MaxDepth == 4
NumChats == 2
VolumeMargin == 60

Chats    == 1..NumChats
\* The chat the one-chat specifications work on.
OneChat  == {1}
Tasks    == 1..NumTasks
MediaIds == 1..NumMedia
LockIds  == 1..(NumTasks * MaxDepth + 1)
SeekTimes == {0, 1, 5}

NoMedia == 0
NoLock  == 0

NumRequests  == 2
NumFiles     == 2
NumCookies   == 2
MaxWarnings  == 2
MaxClients   == 3
MaxActive    == 2
NumUsers     == 3
NumExits     == 2
MaxShutdowns == 2
NumVideos    == 1
NumDownloads == 2
CookiePaths == 1..NumCookies
VideoIds    == 1..NumVideos
Downloads   == 1..NumDownloads
NoCookie == 0

\* youtube.py lines 40-41
MAX_RETRIES == 3
RETRY_DELAY == 2

\* Message ids: 0 is "no message"; the message handed to play_media (the
\* front-end's, or the placeholder play_next / replay sent) and the message
\* a fallback send creates are told apart, not numbered.
GivenMsg == 1
NewMsg   == 2
NoUpdate == [kind |-> "none", what |-> "none", chat |-> 0]
NoDescriptor == [file_path |-> FALSE, message_id |-> 0, time |-> 0]

VARIABLES
    queue,      \* queue store: chat -> sequence of descriptors, head = current
    media,      \* descriptor objects: file_path present, message_id, time
    calls,      \* persisted call state: chat -> "none" | "playing" | "paused"
    locks,      \* TgCall._locks: chat -> lock object (NoLock = no entry)
    locked,     \* asyncio.Lock._locked of every lock object
    stack,      \* per task: the coroutine call stack (sequence of frames)
    running,    \* task inside a synchronous section, 0 when all are suspended
    update,     \* history: the update update_handler handled in the last step
    onAir,      \* history: per chat, whether the descriptor last handed to
                \* client.play is the queue's current item
    cookieDir,  \* *.txt files present in anony/cookies
    cookies,    \* YouTube.cookies (the pool): a list of distinct paths, as a set
    checked,    \* YouTube._checked
    warned,     \* YouTube._warned
    warnings,   \* history: "No cookies found" warnings logged so far
    files,      \* artifacts present under downloads/
    dl,         \* per download task: position in YouTube.download
    saving,     \* the save_cookies call in progress: slugs still to fetch
    drawn,      \* history: what get_cookies returned, if it was called
                \* since the last removal (0: not called, or None returned)
    removedEver,\* history: paths invalidate_cookie has removed
    removedNow, \* history: paths removed since the pool was last reloaded
    active,     \* Telegram.active: file ids being downloaded
    events,     \* Telegram.events: message id -> its cancel Event
    active_tasks, \* Telegram.active_tasks: message ids with a fetch task entry
    tgFiles,    \* Telegram files present under downloads/
    req,        \* per acquisition request: position in Telegram.download / process_url
    volumeCall, \* the last change_volume_call the transport received
    detected,   \* the last URL given to detect_platform, and its answer
    pauseCall,  \* history: the last pause / resume, what the transport
                \* answered and what the caller got
    clients,    \* TgCall.clients: the connections registered, as their number
    ac,         \* the active_calls call in progress
    bot_running,\* Bot._running
    boot,       \* position of Bot.boot
    exits,      \* per exit() call: its position in Bot.exit
    notified,   \* history: shutdown notifications attempted
    stopped,    \* history: calls of the client's stop()
    sudoers,    \* Bot.sudoers: the user ids the filter lets through
    sudoLog     \* history: the last two sudoers operations

callVars == <<queue, media, calls, locks, locked, stack, running, update, onAir>>
ytVars   == <<cookieDir, cookies, checked, warned, warnings, files, dl, saving, drawn,
              removedEver, removedNow>>
tgVars   == <<active, events, active_tasks, tgFiles, req>>
ctlVars  == <<volumeCall, detected, pauseCall>>
botLife  == <<bot_running, boot, exits, notified, stopped>>
sudoVars == <<sudoers, sudoLog>>
botVars  == <<clients, ac, botLife, sudoVars>>
vars     == <<callVars, ytVars, tgVars, ctlVars, botVars>>

\* What the actions of each part leave alone.
exceptCall == <<ytVars, tgVars, ctlVars, botVars>>
exceptYt   == <<callVars, tgVars, ctlVars, botVars>>
exceptTg   == <<callVars, ytVars, ctlVars, botVars>>
exceptCtl  == <<callVars, ytVars, tgVars, botVars>>
exceptBot  == <<callVars, ytVars, tgVars, ctlVars>>

\* ------------------------------------------------------------------------
\*  Frames
\* ------------------------------------------------------------------------
Frame(op, c, m, seek, msg) ==
    [op |-> op, pc |-> "enter", chat |-> c, m |-> m, seek |-> seek,
     lk |-> NoLock, msg |-> msg,
     empty |-> FALSE, stops |-> 0, plays |-> 0, sent |-> FALSE,
     quiet |-> FALSE, stopped |-> FALSE,
     ended |-> NoMedia, stream |-> "none"]

Idle(t)  == stack[t] = <<>>
Depth(t) == Len(stack[t])
Top(t)   == stack[t][Len(stack[t])]
SetTop(s, f) == [s EXCEPT ![Len(s)] = f]
Pop(s)   == SubSeq(s, 1, Len(s) - 1)

\* A play_media / stop frame is inside its `async with self._lock(chat_id)`
\* body at these positions.
Holding(f) ==
    \/ f.op = "play_media" /\ f.pc \in {"locked", "playing", "card", "seek_return", "after_stop", "after_pn"}
    \/ f.op = "stop" /\ f.pc = "leaving"

Waiting(f) == f.pc = "wait"

Referenced(l) ==
    \/ \E c \in Chats : locks[c] = l
    \/ \E t \in Tasks : \E i \in 1..Len(stack[t]) : stack[t][i].lk = l

HasWaiter(l) ==
    \E t \in Tasks : \E i \in 1..Len(stack[t]) :
        Waiting(stack[t][i]) /\ stack[t][i].lk = l

\* A new asyncio.Lock() object: any identity not in use; the least one is
\* taken so that equal heaps are equal states.
FreshLock ==
    CHOOSE l \in LockIds : /\ ~Referenced(l)
                           /\ \A k \in LockIds : ~Referenced(k) => l <= k

\* TgCall._lock: return the chat's lock, creating it if needed.
LockOf_Shared(c) == IF locks[1] # NoLock THEN locks[1] ELSE FreshLock
LockOf(c) == IF locks[c] # NoLock THEN locks[c] ELSE FreshLock
LocksAfterLookup(c) == [locks EXCEPT ![c] = LockOf(c)]

\* asyncio.Lock.acquire takes the lock at once only if it is unlocked and
\* nobody is queued for it.
FreeNow(l) == ~locked[l] /\ ~HasWaiter(l)

\* ------------------------------------------------------------------------
\*  Stores (anony.db, anony.queue)
\* ------------------------------------------------------------------------
get_current(c) == IF queue[c] = <<>> THEN NoMedia ELSE Head(queue[c])
QueueAfterNext(c) == IF queue[c] = <<>> THEN <<>> ELSE Tail(queue[c])
get_next(c) == IF QueueAfterNext(c) = <<>> THEN NoMedia ELSE Head(QueueAfterNext(c))
get_call(c) == calls[c] # "none"
add_call(c) == [calls EXCEPT ![c] = IF @ = "none" THEN "playing" ELSE @]
remove_call(c) == [calls EXCEPT ![c] = "none"]
playing(c, paused) ==
    [calls EXCEPT ![c] = IF @ = "none" THEN @
                         ELSE IF paused THEN "paused" ELSE "playing"]


\* ------------------------------------------------------------------------
\*  Frames, continued
\* ------------------------------------------------------------------------
\* After a frame returns, its caller continues without suspending.
RunAfterPop(t) == IF Depth(t) > 1 THEN t ELSE 0

CanStep(t) == ~Idle(t) /\ running \in {0, t}
TopIs(t, op, pc) == CanStep(t) /\ Top(t).op = op /\ Top(t).pc = pc

Goto(t, f)         == stack' = [stack EXCEPT ![t] = SetTop(@, f)]
Call(t, f, callee) == stack' = [stack EXCEPT ![t] = Append(SetTop(@, f), callee)]
Return(t)          == stack' = [stack EXCEPT ![t] = Pop(@)]
Release(l)         == locked' = [locked EXCEPT ![l] = FALSE]

\* An exception nobody catches unwinds every frame of the task; each
\* `async with` on the way out releases the lock it holds.
HeldBy(t) == {stack[t][i].lk : i \in {j \in 1..Len(stack[t]) : Holding(stack[t][j])}}
Unwind(t) ==
    /\ stack' = [stack EXCEPT ![t] = <<>>]
    /\ locked' = [l \in LockIds |-> IF l \in HeldBy(t) THEN FALSE ELSE locked[l]]
    /\ running' = 0

\* Descriptors nothing refers to any more are garbage; they are kept in
\* one canonical form.  Used as the last conjunct of every action.
Live(med) ==
    [m \in MediaIds |->
        IF \/ \E c \in Chats : \E i \in 1..Len(queue'[c]) : queue'[c][i] = m
           \/ \E t \in Tasks : \E i \in 1..Len(stack'[t]) : stack'[t][i].m = m
        THEN med[m] ELSE NoDescriptor]

\* History: a stop that began on a torn-down chat with nothing else in
\* flight stays `quiet` until some other operation is started.
Disturb(st) ==
    [t \in Tasks |-> [i \in 1..Len(st[t]) |-> [st[t][i] EXCEPT !.quiet = FALSE]]]

\* A play_media frame of chat c reaches `await client.play` (line 194) in
\* this step.
IssuesPlay(c, t) ==
    /\ stack'[t] # <<>>
    /\ LET f == stack'[t][Len(stack'[t])] IN
          /\ f.op = "play_media" /\ f.chat = c /\ f.pc = "playing"
          /\ Len(stack[t]) = Len(stack'[t])
          /\ stack[t][Len(stack[t])].pc # "playing"

\* History, the last conjunct of every step of the orchestrator: a play
\* of the current item sets onAir, a change of the current item clears it.
NoteAir ==
    onAir' = [c \in Chats |->
        IF \E t \in Tasks : IssuesPlay(c, t)
        THEN \E t \in Tasks : IssuesPlay(c, t) /\
                 stack'[t][Len(stack'[t])].m = (IF queue'[c] = <<>> THEN NoMedia ELSE Head(queue'[c]))
        ELSE IF (queue'[c] = <<>>) # (queue[c] = <<>>) THEN FALSE
        ELSE IF queue'[c] # <<>> /\ Head(queue'[c]) # Head(queue[c]) THEN FALSE
        ELSE onAir[c]]

\* ------------------------------------------------------------------------
\*  Front-end / event-dispatcher entry points
\* ------------------------------------------------------------------------
Unused(m) ==
    /\ \A c \in Chats : \A i \in 1..Len(queue[c]) : queue[c][i] # m
    /\ \A t \in Tasks : \A i \in 1..Len(stack[t]) : stack[t][i].m # m

\* queue.add of a new descriptor by the front-end, between the operations
\* it invokes.
Enqueue(c, path, mid) ==
    /\ UNCHANGED exceptCall
    /\ update' = NoUpdate
    /\ running = 0
    /\ \A u \in Tasks : Idle(u)
    /\ Len(queue[c]) < MaxQueue
    /\ \E m \in MediaIds :
          /\ Unused(m)
          /\ \A k \in MediaIds : Unused(k) => m <= k
          /\ queue' = [queue EXCEPT ![c] = Append(@, m)]
          /\ stack' = Disturb(stack)
          /\ UNCHANGED <<calls, locks, locked, running>>
          /\ media' = Live([media EXCEPT ![m] =
                  [file_path |-> path, message_id |-> mid, time |-> 0]])
    /\ NoteAir

\* A coroutine that is invoked (or a task that is created) runs its first
\* synchronous section without interruption once it is scheduled.
StartTask(t, f) ==
    /\ UNCHANGED exceptCall
    /\ update' = NoUpdate
    /\ running = 0
    /\ Idle(t)
    /\ stack' = [Disturb(stack) EXCEPT ![t] = <<f>>]
    /\ running' = t
    /\ UNCHANGED <<queue, media, calls, locks, locked>>
    /\ NoteAir

StartPlayMedia(t, c, seek) ==
    /\ queue[c] # <<>>
    /\ StartTask(t, Frame("play_media", c, Head(queue[c]), seek, GivenMsg))

StartStop(t, c) ==
    StartTask(t, [Frame("stop", c, NoMedia, 0, 0) EXCEPT !.quiet =
        /\ \A u \in Tasks : Idle(u)
        /\ queue[c] = <<>> /\ calls[c] = "none" /\ locks[c] = NoLock])

StartPlayNext(t, c) == StartTask(t, Frame("play_next", c, NoMedia, 0, 0))

StartReplay(t, c) == StartTask(t, Frame("replay", c, NoMedia, 0, 0))

\* ------------------------------------------------------------------------
\*  pause / resume                                      calls.py 102-112
\* ------------------------------------------------------------------------
\* The store is written before the transport is asked (lines 104/110), so
\* the outcome of the transport call changes nothing recorded here.
pause_Unguarded(c) ==
    /\ UNCHANGED exceptCall
    /\ update' = NoUpdate
    /\ running = 0
    /\ calls' = [calls EXCEPT ![c] = "paused"]
    /\ stack' = Disturb(stack)
    /\ UNCHANGED <<queue, media, locks, locked, running>>
    /\ NoteAir

pause(c) ==
    /\ UNCHANGED exceptCall
    /\ update' = NoUpdate
    /\ running = 0
    /\ calls' = playing(c, TRUE)
    /\ stack' = Disturb(stack)
    /\ UNCHANGED <<queue, media, locks, locked, running>>
    /\ NoteAir

resume(c) ==
    /\ UNCHANGED exceptCall
    /\ update' = NoUpdate
    /\ running = 0
    /\ calls' = playing(c, FALSE)
    /\ stack' = Disturb(stack)
    /\ UNCHANGED <<queue, media, locks, locked, running>>
    /\ NoteAir

\* ------------------------------------------------------------------------
\*  stop                                                calls.py 135-151
\* ------------------------------------------------------------------------
\* line 146: self._locks.pop(chat_id, None)
StopLocks_Keep(c, l) == [locks EXCEPT ![c] = l]
StopLocks(c, l) == [locks EXCEPT ![c] = NoLock]

\* lines 142-146, run as soon as the lock is held, up to the await of
\* leave_call.
StopBody(t, l) ==
    LET f == Top(t) IN
    /\ locked' = [locked EXCEPT ![l] = TRUE]
    /\ queue' = [queue EXCEPT ![f.chat] = <<>>]
    /\ calls' = remove_call(f.chat)
    /\ locks' = StopLocks(f.chat, l)
    /\ Goto(t, [f EXCEPT !.pc = "leaving", !.lk = l])
    /\ running' = 0
    /\ media' = Live(media)

StopEnter(t) ==
    /\ UNCHANGED exceptCall
    /\ update' = NoUpdate
    /\ TopIs(t, "stop", "enter")
    /\ LET f == Top(t)
           l == LockOf(f.chat)
       IN  IF FreeNow(l)
           THEN StopBody(t, l)
           ELSE /\ Goto(t, [f EXCEPT !.pc = "wait", !.lk = l])
                /\ locks' = LocksAfterLookup(f.chat)
                /\ running' = 0
                /\ UNCHANGED <<queue, media, calls, locked>>
    /\ NoteAir

StopAcquire(t) ==
    /\ UNCHANGED exceptCall
    /\ update' = NoUpdate
    /\ TopIs(t, "stop", "wait")
    /\ ~locked[Top(t).lk]
    /\ StopBody(t, Top(t).lk)
    /\ NoteAir

\* lines 148-151: leave_call(close=False), any failure swallowed; then the
\* `async with` releases the lock object it acquired.
StopLeaveReturns_OnlyOnSuccess(ok) == ok
StopLeaveReturns(ok) == ok \/ ~ok

\* History: a play_next of chat c that has popped the queue and is suspended
\* on its placeholder send or on its download when a stop of c returns is
\* marked `stopped`.
NoteStop(st, c) ==
    [t \in Tasks |-> [i \in 1..Len(st[t]) |->
        IF /\ st[t][i].op = "play_next" /\ st[t][i].chat = c
           /\ st[t][i].pc \in {"sending", "downloading"}
        THEN [st[t][i] EXCEPT !.stopped = TRUE] ELSE st[t][i]]]

StopLeave(t, ok) ==
    /\ UNCHANGED exceptCall
    /\ update' = NoUpdate
    /\ TopIs(t, "stop", "leaving")
    /\ IF StopLeaveReturns(ok)
       THEN /\ Release(Top(t).lk)
            /\ stack' = NoteStop([stack EXCEPT ![t] = Pop(@)], Top(t).chat)
            /\ running' = RunAfterPop(t)
       ELSE Unwind(t)
    /\ UNCHANGED <<queue, calls, locks>>
    /\ media' = Live(media)
    /\ NoteAir

\* ------------------------------------------------------------------------
\*  play_media                                          calls.py 157-236
\* ------------------------------------------------------------------------
HardFailures == {"NoActiveGroupCall", "ConnectionNotFound",
                 "TelegramServerError", "RTMPStreamingUnsupported"}
SoftFailures == {"FileNotFoundError", "NoAudioSourceFound"}
PlayOutcomes == {"ok", "OtherError"} \cup HardFailures \cup SoftFailures

\* line 81: the ffmpeg seek filter of the stream spec
HasSeekFilter(seek) == seek > 1

\* line 219: `if seek_time: return`
IsSeek_AsFilter(seek) == seek > 1
IsSeek(seek) == seek # 0

\* A play_next frame below the top records the plays made on its behalf.
NotePlay(s) ==
    [i \in 1..Len(s) |->
        IF s[i].op = "play_next" THEN [s[i] EXCEPT !.plays = 1] ELSE s[i]]

\* line 174: `async with self._lock(chat_id)`.  Lines 175-185 (assistant,
\* language and thumbnail lookups) touch nothing modelled, so the section
\* runs on to the guard of line 188.
PlayMediaEnter(t) ==
    /\ UNCHANGED exceptCall
    /\ update' = NoUpdate
    /\ TopIs(t, "play_media", "enter")
    /\ LET f == Top(t)
           l == LockOf(f.chat)
       IN  /\ locks' = LocksAfterLookup(f.chat)
           /\ IF FreeNow(l)
              THEN /\ locked' = [locked EXCEPT ![l] = TRUE]
                   /\ Goto(t, [f EXCEPT !.pc = "locked", !.lk = l])
                   /\ running' = t
              ELSE /\ Goto(t, [f EXCEPT !.pc = "wait", !.lk = l])
                   /\ running' = 0
                   /\ UNCHANGED locked
    /\ UNCHANGED <<queue, media, calls>>
    /\ NoteAir

PlayMediaAcquire(t) ==
    /\ UNCHANGED exceptCall
    /\ update' = NoUpdate
    /\ TopIs(t, "play_media", "wait")
    /\ ~locked[Top(t).lk]
    /\ locked' = [locked EXCEPT ![Top(t).lk] = TRUE]
    /\ Goto(t, [Top(t) EXCEPT !.pc = "locked"])
    /\ running' = t
    /\ UNCHANGED <<queue, media, calls, locks>>
    /\ NoteAir

\* lines 175-199: thumbnail, the file_path guard, then the transport call.
PlayMediaGuard(t) ==
    /\ UNCHANGED exceptCall
    /\ update' = NoUpdate
    /\ TopIs(t, "play_media", "locked")
    /\ LET f == Top(t) IN
       IF f.m = NoMedia
       THEN \* media is None: attribute access raises
            Unwind(t)
       ELSE IF ~media[f.m].file_path
       THEN \* lines 188-190: report, then play_next
            /\ Depth(t) < MaxDepth
            /\ Call(t, [f EXCEPT !.pc = "after_pn"],
                       Frame("play_next", f.chat, NoMedia, 0, 0))
            /\ running' = 0
            /\ UNCHANGED locked
       ELSE /\ Goto(t, [f EXCEPT !.pc = "playing"])
            /\ running' = 0
            /\ UNCHANGED locked
    /\ UNCHANGED <<queue, calls, locks>>
    /\ media' = Live(media)
    /\ NoteAir

\* lines 194-224: the outcome of client.play
PlayMediaResult(t, o) ==
    /\ UNCHANGED exceptCall
    /\ update' = NoUpdate
    /\ TopIs(t, "play_media", "playing")
    /\ UNCHANGED <<queue, locks>>
    /\ LET f == Top(t)
           s == NotePlay(stack[t])
       IN
       CASE o \in HardFailures ->
              \* lines 201-209: await self.stop(chat_id)
              /\ Depth(t) < MaxDepth
              /\ stack' = [stack EXCEPT ![t] =
                    Append(SetTop(s, [f EXCEPT !.pc = "after_stop"]),
                           Frame("stop", f.chat, NoMedia, 0, 0))]
              /\ running' = t
              /\ UNCHANGED <<media, calls, locked>>
         [] o \in SoftFailures ->
              \* lines 211-216: report, then play_next
              /\ Depth(t) < MaxDepth
              /\ stack' = [stack EXCEPT ![t] =
                    Append(SetTop(s, [f EXCEPT !.pc = "after_pn"]),
                           Frame("play_next", f.chat, NoMedia, 0, 0))]
              /\ running' = 0
              /\ UNCHANGED <<media, calls, locked>>
         [] o = "OtherError" ->
              /\ Unwind(t)
              /\ UNCHANGED calls
              /\ media' = Live(media)
         [] o = "ok" /\ IsSeek(f.seek) ->
              \* lines 219-220: `return`, which leaves the `async with`
              /\ stack' = [stack EXCEPT ![t] = SetTop(s, [f EXCEPT !.pc = "seek_return"])]
              /\ running' = t
              /\ UNCHANGED <<media, calls, locked>>
         [] o = "ok" /\ ~IsSeek(f.seek) ->
              \* lines 223-224, then the await of _send_now_playing
              /\ stack' = [stack EXCEPT ![t] = SetTop(s, [f EXCEPT !.pc = "card"])]
              /\ media' = [media EXCEPT ![f.m].time = 1]
              /\ calls' = add_call(f.chat)
              /\ running' = 0
              /\ UNCHANGED locked
    /\ NoteAir

\* lines 234-236 and _send_now_playing (424-469): edit in place, else send
\* a new message, else None.
CardResults == {"edited", "sent_new", "failed"}

PlayMediaCard(t, r) ==
    /\ UNCHANGED exceptCall
    /\ update' = NoUpdate
    /\ TopIs(t, "play_media", "card")
    /\ Release(Top(t).lk)
    /\ Return(t)
    /\ running' = RunAfterPop(t)
    /\ UNCHANGED <<queue, calls, locks>>
    /\ media' = Live([media EXCEPT ![Top(t).m].message_id =
                       CASE r = "edited"   -> Top(t).msg
                         [] r = "sent_new" -> NewMsg
                         [] r = "failed"   -> @])
    /\ NoteAir

PlayMediaSeekReturn(t) ==
    /\ UNCHANGED exceptCall
    /\ update' = NoUpdate
    /\ TopIs(t, "play_media", "seek_return")
    /\ Release(Top(t).lk)
    /\ Return(t)
    /\ running' = RunAfterPop(t)
    /\ UNCHANGED <<queue, calls, locks>>
    /\ media' = Live(media)
    /\ NoteAir

\* lines 203/206/209: the terminal message after stop returned
PlayMediaAfterStop(t) ==
    /\ UNCHANGED exceptCall
    /\ update' = NoUpdate
    /\ TopIs(t, "play_media", "after_stop")
    /\ Release(Top(t).lk)
    /\ Return(t)
    /\ running' = RunAfterPop(t)
    /\ UNCHANGED <<queue, calls, locks>>
    /\ media' = Live(media)
    /\ NoteAir

\* lines 190/213/216: return what play_next returned
PlayMediaAfterNext(t) ==
    /\ UNCHANGED exceptCall
    /\ update' = NoUpdate
    /\ TopIs(t, "play_media", "after_pn")
    /\ Release(Top(t).lk)
    /\ Return(t)
    /\ running' = RunAfterPop(t)
    /\ UNCHANGED <<queue, calls, locks>>
    /\ media' = Live(media)
    /\ NoteAir

\* ------------------------------------------------------------------------
\*  play_next                                           calls.py 251-284
\* ------------------------------------------------------------------------
\* line 268: `if not media`
NoNext_Never(m) == FALSE
NoNext(m) == m = NoMedia

\* lines 267-272: get_next, then either stop or the placeholder send.
\* `med` is the descriptor table after the step's own updates.
Advance(t, med) ==
    LET f  == Top(t)
        nm == get_next(f.chat)
    IN  /\ queue' = [queue EXCEPT ![f.chat] = QueueAfterNext(f.chat)]
        /\ IF NoNext(nm)
           THEN /\ Depth(t) < MaxDepth
                /\ Call(t, [f EXCEPT !.pc = "after_stop", !.m = nm,
                                     !.empty = (nm = NoMedia),
                                     !.stops = IF @ < 2 THEN @ + 1 ELSE @],
                           Frame("stop", f.chat, NoMedia, 0, 0))
                /\ running' = t
           ELSE /\ Goto(t, [f EXCEPT !.pc = "sending", !.m = nm,
                                     !.empty = (nm = NoMedia)])
                /\ running' = 0
        /\ UNCHANGED <<calls, locks, locked>>
        /\ media' = Live(med)

\* lines 261-265
PlayNextStart(t) ==
    /\ UNCHANGED exceptCall
    /\ update' = NoUpdate
    /\ TopIs(t, "play_next", "enter")
    /\ LET f   == Top(t)
           cur == get_current(f.chat)
       IN  IF cur # NoMedia /\ media[cur].message_id # 0
           THEN /\ Goto(t, [f EXCEPT !.pc = "deleted", !.m = cur])
                /\ running' = 0
                /\ UNCHANGED <<queue, media, calls, locks, locked>>
           ELSE Advance(t, media)
    /\ NoteAir

PlayNextDeleted(t) ==
    /\ UNCHANGED exceptCall
    /\ update' = NoUpdate
    /\ TopIs(t, "play_next", "deleted")
    /\ Advance(t, [media EXCEPT ![Top(t).m].message_id = 0])
    /\ NoteAir

\* Hand the descriptor to play_media (lines 283-284).
PlayNextPlay(t, f) ==
    /\ Depth(t) < MaxDepth
    /\ Call(t, [f EXCEPT !.pc = "after_pm"],
               Frame("play_media", f.chat, f.m, 0, f.msg))
    /\ running' = t
    /\ UNCHANGED locked
    /\ media' = [media EXCEPT ![f.m] = [@ EXCEPT !.file_path = TRUE,
                                                 !.message_id = f.msg]]

\* lines 272-276: the placeholder was sent (or the send raised)
PlayNextSent(t, ok) ==
    /\ UNCHANGED exceptCall
    /\ update' = NoUpdate
    /\ TopIs(t, "play_next", "sending")
    /\ UNCHANGED <<queue, calls, locks>>
    /\ LET f == [Top(t) EXCEPT !.sent = ok, !.msg = GivenMsg] IN
       IF ~ok \/ f.m = NoMedia
       THEN /\ Unwind(t)
            /\ media' = Live(media)
       ELSE IF ~media[f.m].file_path
       THEN /\ Goto(t, [f EXCEPT !.pc = "downloading"])
            /\ running' = 0
            /\ UNCHANGED <<media, locked>>
       ELSE PlayNextPlay(t, f)
    /\ NoteAir

\* lines 276-281: yt.download returned a path or None
PlayNextDownloaded(t, ok) ==
    /\ UNCHANGED exceptCall
    /\ update' = NoUpdate
    /\ TopIs(t, "play_next", "downloading")
    /\ UNCHANGED <<queue, calls, locks>>
    /\ LET f == Top(t) IN
       IF ok
       THEN PlayNextPlay(t, f)
       ELSE /\ Depth(t) < MaxDepth
            /\ Call(t, [f EXCEPT !.pc = "after_stop_fail",
                                 !.stops = IF @ < 2 THEN @ + 1 ELSE @],
                       Frame("stop", f.chat, NoMedia, 0, 0))
            /\ running' = t
            /\ UNCHANGED <<media, locked>>
    /\ NoteAir

\* line 269: `return await self.stop(chat_id)`
PlayNextAfterStop(t) ==
    /\ UNCHANGED exceptCall
    /\ update' = NoUpdate
    /\ TopIs(t, "play_next", "after_stop")
    /\ Return(t)
    /\ running' = RunAfterPop(t)
    /\ UNCHANGED <<queue, calls, locks, locked>>
    /\ media' = Live(media)
    /\ NoteAir

\* lines 279-281: msg.edit_text outside any try
PlayNextAfterStopFail(t, ok) ==
    /\ UNCHANGED exceptCall
    /\ update' = NoUpdate
    /\ TopIs(t, "play_next", "after_stop_fail")
    /\ IF ok
       THEN /\ Return(t)
            /\ running' = RunAfterPop(t)
            /\ UNCHANGED locked
       ELSE Unwind(t)
    /\ UNCHANGED <<queue, calls, locks>>
    /\ media' = Live(media)
    /\ NoteAir

PlayNextAfterPlay(t) ==
    /\ UNCHANGED exceptCall
    /\ update' = NoUpdate
    /\ TopIs(t, "play_next", "after_pm")
    /\ Return(t)
    /\ running' = RunAfterPop(t)
    /\ UNCHANGED <<queue, calls, locks, locked>>
    /\ media' = Live(media)
    /\ NoteAir

\* ------------------------------------------------------------------------
\*  replay                                              calls.py 242-249
\* ------------------------------------------------------------------------
ReplayStart(t) ==
    /\ UNCHANGED exceptCall
    /\ update' = NoUpdate
    /\ TopIs(t, "replay", "enter")
    /\ LET f == Top(t) IN
       IF ~get_call(f.chat)
       THEN /\ Return(t)
            /\ running' = RunAfterPop(t)
       ELSE /\ Goto(t, [f EXCEPT !.pc = "sending", !.m = get_current(f.chat)])
            /\ running' = 0
    /\ UNCHANGED <<queue, media, calls, locks, locked>>
    /\ NoteAir

ReplaySent(t, ok) ==
    /\ UNCHANGED exceptCall
    /\ update' = NoUpdate
    /\ TopIs(t, "replay", "sending")
    /\ LET f == Top(t) IN
       IF ok
       THEN /\ Depth(t) < MaxDepth
            /\ Call(t, [f EXCEPT !.pc = "after_pm", !.msg = GivenMsg],
                       Frame("play_media", f.chat, f.m, 0, GivenMsg))
            /\ running' = t
            /\ UNCHANGED locked
       ELSE Unwind(t)
    /\ UNCHANGED <<queue, calls, locks>>
    /\ media' = Live(media)
    /\ NoteAir

ReplayAfterPlay(t) ==
    /\ UNCHANGED exceptCall
    /\ update' = NoUpdate
    /\ TopIs(t, "replay", "after_pm")
    /\ Return(t)
    /\ running' = RunAfterPop(t)
    /\ UNCHANGED <<queue, calls, locks, locked>>
    /\ media' = Live(media)
    /\ NoteAir

\* ------------------------------------------------------------------------
\*  The call orchestrator as a whole
\* ------------------------------------------------------------------------
TaskStep(t) ==
    \/ StopEnter(t)
    \/ StopAcquire(t)
    \/ \E ok \in BOOLEAN : StopLeave(t, ok)
    \/ PlayMediaEnter(t)
    \/ PlayMediaAcquire(t)
    \/ PlayMediaGuard(t)
    \/ \E o \in PlayOutcomes : PlayMediaResult(t, o)
    \/ \E r \in CardResults : PlayMediaCard(t, r)
    \/ PlayMediaSeekReturn(t)
    \/ PlayMediaAfterStop(t)
    \/ PlayMediaAfterNext(t)
    \/ PlayNextStart(t)
    \/ PlayNextDeleted(t)
    \/ \E ok \in BOOLEAN : PlayNextSent(t, ok)
    \/ \E ok \in BOOLEAN : PlayNextDownloaded(t, ok)
    \/ PlayNextAfterStop(t)
    \/ \E ok \in BOOLEAN : PlayNextAfterStopFail(t, ok)
    \/ PlayNextAfterPlay(t)
    \/ ReplayStart(t)
    \/ \E ok \in BOOLEAN : ReplaySent(t, ok)
    \/ ReplayAfterPlay(t)

FrontEnd ==
    \/ \E c \in OneChat, path \in BOOLEAN, mid \in {0, GivenMsg} : Enqueue(c, path, mid)
    \/ \E t \in Tasks, c \in OneChat, seek \in SeekTimes : StartPlayMedia(t, c, seek)
    \/ \E t \in Tasks, c \in OneChat : StartStop(t, c)
    \/ \E t \in Tasks, c \in OneChat : StartPlayNext(t, c)
    \/ \E t \in Tasks, c \in OneChat : StartReplay(t, c)
    \/ \E c \in OneChat : pause(c)
    \/ \E c \in OneChat : resume(c)

CallInit ==
    /\ queue = [c \in Chats |-> <<>>]
    /\ media = [m \in MediaIds |-> NoDescriptor]
    /\ calls = [c \in Chats |-> "none"]
    /\ locks = [c \in Chats |-> NoLock]
    /\ locked = [l \in LockIds |-> FALSE]
    /\ stack = [t \in Tasks |-> <<>>]
    /\ running = 0
    /\ update = NoUpdate
    /\ onAir = [c \in Chats |-> FALSE]

NoDownload == [pc |-> "idle", vid |-> 0, attempt |-> 0, cookie |-> NoCookie,
               delay |-> 0, result |-> "none"]
NotSaving == [active |-> FALSE, todo |-> {}]

YtIdle ==
    /\ cookieDir = {}
    /\ cookies = {}
    /\ checked = FALSE
    /\ warned = FALSE
    /\ warnings = 0
    /\ files = {}
    /\ dl = [d \in Downloads |-> NoDownload]
    /\ saving = NotSaving
    /\ drawn = NoCookie
    /\ removedEver = {}
    /\ removedNow = {}

TgReqs    == 1..NumRequests
TgFileIds == 1..NumFiles

NoRequest == [pc |-> "idle", kind |-> "none", fid |-> 0, task |-> "none",
              fetched |-> FALSE, result |-> "none",
              platform |-> "none", resolved |-> "unset"]

\* Telegram.__init__ (telegram.py 212-221)
TgInit ==
    /\ active = {}
    /\ events = [m \in TgReqs |-> "none"]
    /\ active_tasks = {}
    /\ tgFiles = {}
    /\ req = [r \in TgReqs |-> NoRequest]

NoVolumeCall == [chat |-> 0, asked |-> 0, volume |-> 0]
NoPauseCall == [op |-> "none", chat |-> 0, answer |-> "none", before |-> "none",
                returned |-> "none"]

\* No control operation has run yet.
CtlInit ==
    /\ volumeCall = NoVolumeCall
    /\ detected = [url |-> "", platform |-> "none"]
    /\ pauseCall = NoPauseCall

\* Everything but the call orchestrator, at rest.
\* config.OWNER_ID
owner == 1
Users == 1..NumUsers
ExitCalls == 1..NumExits

NoCount  == [pc |-> "idle", i |-> 0, total |-> 0, answers |-> <<>>, result |-> 0]
NoExit   == [pc |-> "idle", via |-> "none", at |-> "none", ran |-> FALSE]
NoSudoOp == [op |-> "none", u |-> 0]

\* TgCall.__init__ (line 46) and Bot.__init__ (bot.py 38-72)
BotInit ==
    /\ clients = 0
    /\ ac = NoCount
    /\ bot_running = FALSE
    /\ boot = "new"
    /\ exits = [e \in ExitCalls |-> NoExit]
    /\ notified = 0
    /\ stopped = 0
    /\ sudoers = {owner}
    /\ sudoLog = <<NoSudoOp, NoSudoOp>>

AtRest == YtIdle /\ TgInit /\ CtlInit /\ BotInit

\* ------------------------------------------------------------------------
\*  update_handler                                     calls.py 335-379
\* ------------------------------------------------------------------------
StreamTypes  == {"AUDIO", "VIDEO", "OTHER"}
ChatStatuses == {"KICKED", "LEFT_GROUP", "CLOSED_VOICE_CHAT", "INCOMING_CALL"}
Updates ==
    [kind : {"StreamEnded"}, what : StreamTypes, chat : OneChat]
    \cup [kind : {"ChatUpdate"}, what : ChatStatuses, chat : OneChat]
    \cup [kind : {"MutedStream", "UnMutedStream"}, what : {"none"}, chat : OneChat]

\* lines 341-345
SchedulesNext_AnyType(u) == u.kind = "StreamEnded"
SchedulesNext(u) == u.kind = "StreamEnded" /\ u.what \in {"AUDIO", "VIDEO"}

\* lines 353-359
SchedulesStop_AnyStatus(u) == u.kind = "ChatUpdate"
SchedulesStop(u) ==
    /\ u.kind = "ChatUpdate"
    /\ u.what \in {"KICKED", "LEFT_GROUP", "CLOSED_VOICE_CHAT"}

\* asyncio.create_task: the coroutine is wrapped in a task that starts
\* when the event loop next runs it; the caller goes on.
CreateTask(t, f) ==
    /\ Idle(t)
    /\ stack' = [Disturb(stack) EXCEPT ![t] = <<f>>]

\* The handler has no await: it runs from start to end when the transport
\* delivers update u.
update_handler(u) ==
    /\ UNCHANGED exceptCall
    /\ running = 0
    /\ update' = u
    /\ IF SchedulesNext(u)
       THEN \* history: the track that ended, and the stream the update names
            \E t \in Tasks : CreateTask(t, [Frame("play_next", u.chat, NoMedia, 0, 0)
                EXCEPT !.ended = get_current(u.chat), !.stream = u.what])
       ELSE IF SchedulesStop(u)
       THEN \E t \in Tasks : CreateTask(t, [Frame("stop", u.chat, NoMedia, 0, 0)
                EXCEPT !.quiet =
                    /\ \A w \in Tasks : Idle(w)
                    /\ queue[u.chat] = <<>> /\ calls[u.chat] = "none"
                    /\ locks[u.chat] = NoLock])
       ELSE stack' = Disturb(stack)
    /\ UNCHANGED <<queue, media, calls, locks, locked, running>>
    /\ NoteAir

CallNext == FrontEnd \/ \E t \in Tasks : TaskStep(t)

Init == CallInit /\ AtRest
Next == CallNext
Spec == Init /\ [][Next]_vars

\* The orchestrator driven by the transport's updates alone: the tasks are
\* the play_next and stop tasks update_handler creates, and what they call.
DispatchStep(t) ==
    \/ StopEnter(t)
    \/ StopAcquire(t)
    \/ \E ok \in BOOLEAN : StopLeave(t, ok)
    \/ PlayMediaEnter(t)
    \/ PlayMediaGuard(t)
    \/ \E o \in PlayOutcomes : PlayMediaResult(t, o)
    \/ \E r \in CardResults : PlayMediaCard(t, r)
    \/ PlayNextStart(t)
    \/ PlayNextDeleted(t)
    \/ \E ok \in BOOLEAN : PlayNextSent(t, ok)
    \/ \E ok \in BOOLEAN : PlayNextDownloaded(t, ok)
    \/ PlayNextAfterStop(t)
    \/ \E ok \in BOOLEAN : PlayNextAfterStopFail(t, ok)
    \/ PlayNextAfterPlay(t)

DispatchNext ==
    \/ \E u \in Updates : update_handler(u)
    \/ \E c \in OneChat, path \in BOOLEAN, mid \in {0, GivenMsg} : Enqueue(c, path, mid)
    \/ \E t \in Tasks : DispatchStep(t)
DispatchStart == CallInit /\ AtRest
DispatchSpec == DispatchStart /\ [][DispatchNext]_vars


\* ------------------------------------------------------------------------
\*  Properties of the call orchestrator
\* ------------------------------------------------------------------------
Frames == {<<t, i>> : t \in Tasks, i \in 1..MaxDepth}
Live_(p) == p[2] <= Len(stack[p[1]])
FrameAt(p) == stack[p[1]][p[2]]
LiveFrames == {p \in Frames : Live_(p)}
AllIdle == \A t \in Tasks : Idle(t)

\* C1: for any chat, at no time are two of play_media / stop inside their
\* lock-protected bodies at once.
C1_MutualExclusion ==
    \A c \in Chats :
        Cardinality({p \in LiveFrames :
            FrameAt(p).chat = c /\ Holding(FrameAt(p))}) <= 1

Alone(t) == \A u \in Tasks : u # t => Idle(u)

\* C2: a hard failure of the transport play call tears the call down: the
\* stop that play_media invokes runs to completion, so with no other
\* operation in flight the task can always take its next step until
\* play_media has returned.
HardFailurePending(t) ==
    /\ Len(stack[t]) >= 2
    /\ stack[t][1].op = "play_media" /\ stack[t][1].pc = "after_stop"
    /\ stack[t][2].op = "stop"

C2_HardFailureTearsDown ==
    \A t \in Tasks : (HardFailurePending(t) /\ Alone(t)) => ENABLED TaskStep(t)

\* C3: after a soft failure (or an empty file path) with a next item in the
\* queue, play_next streams that item: with no other operation in flight,
\* the play_media it invokes can always go on until it has reached the
\* transport play call.
SkipPending(t) ==
    /\ Len(stack[t]) = 3
    /\ stack[t][1].op = "play_media" /\ stack[t][1].pc = "after_pn"
    /\ stack[t][2].op = "play_next" /\ stack[t][2].pc = "after_pm"
    /\ stack[t][3].op = "play_media" /\ stack[t][3].pc \in {"enter", "wait", "locked"}

C3_SoftFailureStreamsNext ==
    \A t \in Tasks : (SkipPending(t) /\ Alone(t)) => ENABLED TaskStep(t)

\* C4: whenever no operation is in flight, a chat with no Call has no entry
\* in the lock registry.
C4_NoCallNoLock ==
    AllIdle => \A c \in Chats : calls[c] = "none" => locks[c] = NoLock

\* C5 (as claimed): a stop on a chat that is already torn down performs no
\* teardown: it never gets to clear the queue, remove the call state or
\* ask the transport to leave.
QuietStop(t) ==
    /\ ~Idle(t)
    /\ stack[t][1].op = "stop" /\ stack[t][1].quiet

C5_RedundantStopDoesNothing ==
    \A t \in Tasks : QuietStop(t) => stack[t][1].pc # "leaving"

\* C5 (amended): a stop on a chat that is already torn down (empty queue, no
\* call state, no lock entry; as after a completed stop) leaves queue, call
\* state and lock registry as they were, at every step until it returns.
C5_RedundantStopKeepsState ==
    [][\A t \in Tasks : QuietStop(t) =>
          /\ queue'[stack[t][1].chat] = <<>>
          /\ calls'[stack[t][1].chat] = "none"
          /\ locks'[stack[t][1].chat] = NoLock]_vars

C5_Witness ==
    \E t \in Tasks : QuietStop(t) /\ stack[t][1].pc = "leaving"

\* C6: a play_next for which the queue yields no next item invokes stop
\* exactly once, makes no transport play call and sends no placeholder.
C6_EmptyQueueStopsOnce ==
    \A p \in LiveFrames :
        (FrameAt(p).op = "play_next" /\ FrameAt(p).empty) =>
            /\ FrameAt(p).pc = "after_stop"
            /\ FrameAt(p).stops = 1
            /\ FrameAt(p).plays = 0
            /\ ~FrameAt(p).sent

C6_Witness ==
    \E t \in Tasks :
        /\ Len(stack[t]) = 2
        /\ stack[t][1].op = "play_next" /\ stack[t][1].empty
        /\ stack[t][2].op = "stop" /\ stack[t][2].pc = "leaving"

\* C7: a play_media with a nonzero seek offset whose transport play call
\* succeeds returns at once: no add_call, the descriptor untouched, no
\* now-playing card.
SeekSucceeds(t) ==
    /\ ~Idle(t) /\ Len(stack'[t]) = Len(stack[t])
    /\ Top(t).op = "play_media" /\ Top(t).seek # 0 /\ Top(t).pc = "playing"
    /\ stack'[t][Len(stack[t])].pc \in {"seek_return", "card"}

C7_SeekChangesNothing ==
    [][\A t \in Tasks : SeekSucceeds(t) =>
          /\ stack'[t][Len(stack[t])].pc = "seek_return"
          /\ calls' = calls
          /\ media' = media]_vars

C7_Witness ==
    \E t \in Tasks :
        /\ ~Idle(t) /\ Top(t).op = "play_media" /\ Top(t).pc = "seek_return"
        /\ calls[Top(t).chat] = "playing"

\* C8: the per-chat state moves only along NO_CALL -> PLAYING (a fresh
\* play_media that succeeded), PLAYING <-> PAUSED (pause / resume) and
\* PLAYING / PAUSED -> NO_CALL (the body of stop); pause and resume on a
\* chat in NO_CALL change nothing.
FreshPlaySucceeds(t, c) ==
    /\ ~Idle(t) /\ Len(stack'[t]) = Len(stack[t])
    /\ Top(t).op = "play_media" /\ Top(t).chat = c
    /\ Top(t).seek = 0 /\ Top(t).pc = "playing"
    /\ stack'[t][Len(stack[t])].pc = "card"

StopTearsDown(t, c) ==
    /\ ~Idle(t) /\ Len(stack'[t]) = Len(stack[t])
    /\ Top(t).op = "stop" /\ Top(t).chat = c /\ Top(t).pc \in {"enter", "wait"}
    /\ stack'[t][Len(stack[t])].pc = "leaving"

NoTaskMoved ==
    \A t \in Tasks : /\ Len(stack'[t]) = Len(stack[t])
                     /\ \A i \in 1..Len(stack[t]) : stack'[t][i].pc = stack[t][i].pc

C8_Edge(c) ==
    CASE calls[c] = "none" /\ calls'[c] = "playing" ->
            \E t \in Tasks : FreshPlaySucceeds(t, c)
      [] calls[c] = "none" /\ calls'[c] = "paused" -> FALSE
      [] calls[c] # "none" /\ calls'[c] = "none" ->
            \E t \in Tasks : StopTearsDown(t, c)
      [] calls[c] = "playing" /\ calls'[c] = "paused" -> NoTaskMoved
      [] calls[c] = "paused" /\ calls'[c] = "playing" -> NoTaskMoved
      [] OTHER -> calls'[c] = calls[c]

Loaded == IF checked THEN cookies ELSE cookieDir

\* get_cookies (115-126): load, then None with a one-time warning, or a
\* random member of the pool.
\* line 119: if not self._warned
ShouldWarn_Always(w) == TRUE
ShouldWarn(w) == ~w

get_cookies(c) ==
    /\ IF Loaded = {} THEN c = NoCookie ELSE c \in Loaded
    /\ cookies' = Loaded
    /\ checked' = TRUE
    /\ warned' = (warned \/ Loaded = {})
    /\ warnings' = IF Loaded = {} /\ ShouldWarn(warned) /\ warnings < MaxWarnings
                   THEN warnings + 1 ELSE warnings
    /\ drawn' = c
    /\ removedNow' = IF checked THEN removedNow ELSE {}

\* line 131: self.cookies.remove(cookie_path)
PoolWithout_Kept(p) == cookies
PoolWithout(p) == cookies \ {p}

\* invalidate_cookie (128-135)
invalidate_cookie(p) ==
    IF p # NoCookie /\ p \in cookies
    THEN /\ cookies' = PoolWithout(p)
         /\ removedEver' = removedEver \cup {p}
         /\ removedNow' = removedNow \cup {p}
         /\ drawn' = NoCookie
    ELSE UNCHANGED <<cookies, removedEver, removedNow, drawn>>

GetCookies(c) ==
    /\ UNCHANGED exceptYt
    /\ get_cookies(c)
    /\ UNCHANGED <<cookieDir, files, dl, saving, removedEver>>

InvalidateCookie(p) ==
    /\ UNCHANGED exceptYt
    /\ invalidate_cookie(p)
    /\ UNCHANGED <<cookieDir, checked, warned, warnings, files, dl, saving>>

\* save_cookies (137-162): one fetch per slug, each written to
\* cookies/<slug>.txt if it succeeds; then the pool is reloaded.
SaveCookies(urls) ==
    /\ UNCHANGED exceptYt
    /\ ~saving.active
    /\ saving' = [active |-> TRUE, todo |-> urls]
    /\ UNCHANGED <<cookieDir, cookies, checked, warned, warnings, files, dl, drawn,
                   removedEver, removedNow>>

SaveCookiesFetch(u, ok) ==
    /\ UNCHANGED exceptYt
    /\ saving.active /\ u \in saving.todo
    /\ saving' = [saving EXCEPT !.todo = @ \ {u}]
    /\ cookieDir' = IF ok THEN cookieDir \cup {u} ELSE cookieDir
    /\ UNCHANGED <<cookies, checked, warned, warnings, files, dl, drawn,
                   removedEver, removedNow>>

\* lines 160-161: self._checked = False; self._load_cookies()
SaveCookiesReload ==
    /\ UNCHANGED exceptYt
    /\ saving.active /\ saving.todo = {}
    /\ saving' = NotSaving
    /\ cookies' = cookieDir
    /\ checked' = TRUE
    /\ removedNow' = {}
    /\ UNCHANGED <<cookieDir, warned, warnings, files, dl, drawn, removedEver>>

\* ------------------------------------------------------------------------
\*  download                                          youtube.py 345-419
\* ------------------------------------------------------------------------
InfoResults  == {"short", "long", "none"}
FetchResults == {"ok", "no_file", "DownloadError", "OtherError"}

\* line 381: `for attempt in range(1, MAX_RETRIES + 1)`, after attempt n
MoreAttempts_OffByOne(n) == n <= MAX_RETRIES
MoreAttempts(n) == n < MAX_RETRIES

Finish(d, res) ==
    dl' = [dl EXCEPT ![d] = [@ EXCEPT !.pc = "done", !.result = res]]

\* lines 367-368: `if filename.exists(): return str(filename)`
CacheHit_Never(v) == FALSE
CacheHit(v) == v \in files

\* lines 367-371: the cache check, then get_info, which draws a cookie
\* (line 448) before its metadata fetch.
DownloadStart(d, v, c) ==
    /\ UNCHANGED exceptYt
    /\ dl[d].pc = "idle"
    /\ IF CacheHit(v)
       THEN /\ dl' = [dl EXCEPT ![d] = [NoDownload EXCEPT !.pc = "done",
                                 !.vid = v, !.result = "path"]]
            /\ c = NoCookie
            /\ UNCHANGED <<cookies, checked, warned, warnings, drawn, removedNow>>
       ELSE /\ dl' = [dl EXCEPT ![d] = [NoDownload EXCEPT !.pc = "info", !.vid = v]]
            /\ get_cookies(c)
    /\ UNCHANGED <<cookieDir, files, saving, removedEver>>

\* lines 382-383: the head of the retry loop
Attempt(d, n, c) ==
    /\ get_cookies(c)
    /\ dl' = [dl EXCEPT ![d] = [@ EXCEPT !.pc = "fetching", !.attempt = n,
                                         !.cookie = c, !.delay = 0]]

\* lines 372-379: the duration guard
DownloadInfo(d, r, c) ==
    /\ UNCHANGED exceptYt
    /\ dl[d].pc = "info"
    /\ IF r = "long"
       THEN /\ Finish(d, "None")
            /\ c = NoCookie
            /\ UNCHANGED <<cookies, checked, warned, warnings, drawn, removedNow>>
       ELSE Attempt(d, 1, c)
    /\ UNCHANGED <<cookieDir, files, saving, removedEver>>

\* lines 391-413: the fetch in the worker thread came back
DownloadFetched(d, r, c) ==
    /\ UNCHANGED exceptYt
    /\ dl[d].pc = "fetching"
    /\ UNCHANGED <<cookieDir, saving>>
    /\ LET n == dl[d].attempt IN
       CASE r = "ok" ->
              /\ files' = files \cup {dl[d].vid}
              /\ Finish(d, "path")
              /\ c = NoCookie
              /\ UNCHANGED <<cookies, checked, warned, warnings, drawn, removedEver, removedNow>>
         [] r = "no_file" ->
              \* no exception and no file: straight into the next attempt
              /\ UNCHANGED <<files, removedEver>>
              /\ IF MoreAttempts(n)
                 THEN Attempt(d, n + 1, c)
                 ELSE /\ Finish(d, "None")
                      /\ c = NoCookie
                      /\ UNCHANGED <<cookies, checked, warned, warnings, drawn, removedNow>>
         [] r = "DownloadError" ->
              /\ c = NoCookie
              /\ invalidate_cookie(dl[d].cookie)
              /\ IF MoreAttempts(n)
                 THEN dl' = [dl EXCEPT ![d] = [@ EXCEPT !.pc = "sleeping",
                                                 !.delay = RETRY_DELAY * n]]
                 ELSE Finish(d, "None")
              /\ UNCHANGED <<files, checked, warned, warnings>>
         [] r = "OtherError" ->
              /\ c = NoCookie
              /\ IF MoreAttempts(n)
                 THEN dl' = [dl EXCEPT ![d] = [@ EXCEPT !.pc = "sleeping",
                                                 !.delay = RETRY_DELAY]]
                 ELSE Finish(d, "None")
              /\ UNCHANGED <<files, cookies, checked, warned, warnings, drawn,
                             removedEver, removedNow>>

\* asyncio.sleep is over: the next turn of the loop
DownloadWake(d, c) ==
    /\ UNCHANGED exceptYt
    /\ dl[d].pc = "sleeping"
    /\ Attempt(d, dl[d].attempt + 1, c)
    /\ UNCHANGED <<cookieDir, files, saving, removedEver>>

DownloadReturn(d) ==
    /\ UNCHANGED exceptYt
    /\ dl[d].pc = "done"
    /\ dl' = [dl EXCEPT ![d] = NoDownload]
    /\ UNCHANGED <<cookieDir, cookies, checked, warned, warnings, files, saving, drawn,
                   removedEver, removedNow>>

Draws == CookiePaths \cup {NoCookie}

YtNext ==
    \/ \E c \in Draws : GetCookies(c)
    \/ \E p \in Draws : InvalidateCookie(p)
    \/ \E urls \in SUBSET CookiePaths : SaveCookies(urls)
    \/ \E u \in CookiePaths, ok \in BOOLEAN : SaveCookiesFetch(u, ok)
    \/ SaveCookiesReload
    \/ \E d \in Downloads, v \in VideoIds, c \in Draws : DownloadStart(d, v, c)
    \/ \E d \in Downloads, r \in InfoResults, c \in Draws : DownloadInfo(d, r, c)
    \/ \E d \in Downloads, r \in FetchResults, c \in Draws : DownloadFetched(d, r, c)
    \/ \E d \in Downloads, c \in Draws : DownloadWake(d, c)
    \/ \E d \in Downloads : DownloadReturn(d)

\* The cookie directory holds whatever files earlier runs left there.
YtInit ==
    /\ cookieDir \in SUBSET CookiePaths
    /\ cookies = {}
    /\ checked = FALSE
    /\ warned = FALSE
    /\ warnings = 0
    /\ files = {}
    /\ dl = [d \in Downloads |-> NoDownload]
    /\ saving = NotSaving
    /\ drawn = NoCookie
    /\ removedEver = {}
    /\ removedNow = {}

YtStart == CallInit /\ YtInit /\ TgInit /\ CtlInit /\ BotInit
YtSpec == YtStart /\ [][YtNext]_vars

\* ------------------------------------------------------------------------
\*  Properties of media acquisition
\* ------------------------------------------------------------------------
\* C9: of two concurrent downloads of the same artifact, neither finding
\* the file cached, at most one performs a network fetch.
C9_OneFetchPerArtifact ==
    \A d, e \in Downloads :
        (d # e /\ dl[d].pc = "fetching" /\ dl[e].pc = "fetching") =>
            dl[d].vid # dl[e].vid

\* C10 (as claimed): a path invalidate_cookie has removed is never again
\* returned by get_cookies.
C10_RemovedNeverRedrawn == drawn \notin removedEver

\* C10 (amended): a path invalidate_cookie has removed is not returned by
\* get_cookies until the pool is next reloaded from the cookie directory.
C10_RemovedNotRedrawnBeforeReload == drawn \notin removedNow

C10_Witness == drawn # NoCookie /\ removedNow # {}

DownloadStep(d) ==
    \/ \E r \in InfoResults, c \in Draws : DownloadInfo(d, r, c)
    \/ \E r \in FetchResults, c \in Draws : DownloadFetched(d, r, c)
    \/ \E c \in Draws : DownloadWake(d, c)
    \/ DownloadReturn(d)

\* Progress of one download call: every step of it raises this measure.
DownloadRank(r) ==
    IF r.pc = "done" THEN 3 * MAX_RETRIES + 3
    ELSE 3 * r.attempt + (CASE r.pc = "info" -> 1
                            [] r.pc = "fetching" -> 0
                            [] r.pc = "sleeping" -> 1
                            [] OTHER -> 0)

\* C11: a download makes at most MAX_RETRIES fetch attempts whatever their
\* outcomes, returns None once attempt MAX_RETRIES has failed, and
\* terminates: while it runs it always has a next step, and each of its
\* steps brings it nearer to its return.
C11_BoundedAttempts ==
    [][\A d \in Downloads :
          /\ dl'[d].attempt <= MAX_RETRIES
          /\ (dl[d].pc \in {"info", "fetching", "sleeping", "done"}) =>
                ENABLED DownloadStep(d)
          /\ (dl[d].pc \in {"info", "fetching", "sleeping"} /\ dl'[d] # dl[d]) =>
                DownloadRank(dl'[d]) > DownloadRank(dl[d])
          /\ (dl[d].pc = "fetching" /\ dl[d].attempt = MAX_RETRIES
                /\ dl'[d] # dl[d]) =>
                /\ dl'[d].pc = "done"
                /\ dl'[d].result = "None" \/ dl[d].vid \in files']_vars

C11_Witness ==
    \E d \in Downloads :
        dl[d].pc = "done" /\ dl[d].attempt = MAX_RETRIES /\ dl[d].result = "None"

\* C12: within a download, each failed fetch attempt removes exactly one
\* credential from the pool, and none once the pool is empty, whatever the
\* kind of failure.
AttemptFailed(d) ==
    /\ dl[d].pc = "fetching" /\ dl'[d] # dl[d]
    /\ ~(dl'[d].pc = "done" /\ dl'[d].result = "path")

C12_FailureRemovesOneCookie ==
    [][\A d \in Downloads : AttemptFailed(d) =>
          Cardinality(cookies') =
              IF cookies = {} THEN 0 ELSE Cardinality(cookies) - 1]_vars

\* C13: a download whose output file already exists returns its path with
\* no network activity: no metadata lookup, no credential draw, no fetch,
\* and the cookie pool as it was.
DownloadBegins(d) == dl[d].pc = "idle" /\ dl'[d].pc # "idle"

C13_CacheHitNoNetwork ==
    [][\A d \in Downloads :
          (DownloadBegins(d) /\ dl'[d].vid \in files) =>
              /\ dl'[d].pc = "done" /\ dl'[d].result = "path"
              /\ dl'[d].attempt = 0 /\ dl'[d].cookie = NoCookie
              /\ UNCHANGED <<cookies, checked, warned, warnings, drawn, files>>]_vars

C13_Witness ==
    \E d \in Downloads :
        /\ dl[d].pc = "done" /\ dl[d].result = "path" /\ dl[d].attempt = 0
        /\ dl[d].vid \in files

\* ------------------------------------------------------------------------
\*  Telegram.download, cancel                        telegram.py 250-361
\*  Telegram.process_url (yt-dlp platforms)          telegram.py 452-505
\* ------------------------------------------------------------------------
\* A request is identified with the id of its `sent` message (line 297).
Guards == {"ok", "too_long", "too_big"}

\* line 361: self.active = [f for f in self.active if f != file_id]
ReleaseSlot_Kept(f) == active
ReleaseSlot(f) == active \ {f}

\* lines 358-361: the `finally` of download
Finally(r) ==
    /\ events' = [events EXCEPT ![r] = "none"]
    /\ active' = ReleaseSlot(req[r].fid)

Finished(r, res) ==
    req' = [req EXCEPT ![r] = [@ EXCEPT !.pc = "done", !.result = res]]

\* lines 294-339: up to the first await
TgStart(r, f, g) ==
    /\ UNCHANGED exceptTg
    /\ req[r].pc = "idle"
    /\ UNCHANGED tgFiles
    /\ IF g # "ok"
       THEN \* lines 313-323: the duration and size guards, before the `try`
            /\ req' = [req EXCEPT ![r] = [NoRequest EXCEPT !.pc = "reject",
                          !.kind = "file", !.fid = f, !.result = g]]
            /\ events' = [events EXCEPT ![r] = "clear"]
            /\ UNCHANGED <<active, active_tasks>>
       ELSE IF f \in tgFiles
       THEN \* line 329 false: the file is there; lines 345-353, then finally
            /\ req' = [req EXCEPT ![r] = [NoRequest EXCEPT !.pc = "done",
                          !.kind = "file", !.fid = f, !.result = "media"]]
            /\ events' = [events EXCEPT ![r] = "none"]
            /\ active' = ReleaseSlot(f)
            /\ UNCHANGED active_tasks
       ELSE IF f \in active
       THEN \* lines 330-331
            /\ req' = [req EXCEPT ![r] = [NoRequest EXCEPT !.pc = "dup",
                          !.kind = "file", !.fid = f]]
            /\ events' = [events EXCEPT ![r] = "clear"]
            /\ UNCHANGED <<active, active_tasks>>
       ELSE \* lines 334-339
            /\ req' = [req EXCEPT ![r] = [NoRequest EXCEPT !.pc = "fetching",
                          !.kind = "file", !.fid = f, !.task = "running",
                          !.fetched = TRUE]]
            /\ events' = [events EXCEPT ![r] = "clear"]
            /\ active' = active \cup {f}
            /\ active_tasks' = active_tasks \cup {r}

\* lines 317/323: stop_propagation raises outside the `try`
TgReject(r) ==
    /\ UNCHANGED exceptTg
    /\ req[r].pc = "reject"
    /\ req' = [req EXCEPT ![r] = [@ EXCEPT !.pc = "done"]]
    /\ UNCHANGED <<active, events, active_tasks, tgFiles>>

\* lines 331-332: rejected as already active; stop_propagation raises
\* inside the `try`, so the `finally` runs
TgDup(r) ==
    /\ UNCHANGED exceptTg
    /\ req[r].pc = "dup"
    /\ Finished(r, "active")
    /\ Finally(r)
    /\ UNCHANGED <<active_tasks, tgFiles>>

\* lines 339-344: the fetch task ended by itself
TgFetched(r, ok) ==
    /\ UNCHANGED exceptTg
    /\ req[r].pc = "fetching" /\ req[r].task = "running"
    /\ IF ok /\ req[r].fid \in active
       THEN /\ req' = [req EXCEPT ![r] = [@ EXCEPT !.pc = "complete", !.task = "none"]]
            /\ active' = active \ {req[r].fid}
            /\ active_tasks' = active_tasks \ {r}
            /\ UNCHANGED events
       ELSE \* the task raised, or active.remove raised ValueError
            /\ req' = [req EXCEPT ![r] = [@ EXCEPT !.pc = "done", !.task = "none",
                                                  !.result = "error"]]
            /\ Finally(r)
            /\ UNCHANGED active_tasks
    /\ tgFiles' = IF ok THEN tgFiles \cup {req[r].fid} ELSE tgFiles

\* lines 342-353: after the dl_complete edit
TgComplete(r) ==
    /\ UNCHANGED exceptTg
    /\ req[r].pc = "complete"
    /\ Finished(r, "media")
    /\ Finally(r)
    /\ UNCHANGED <<active_tasks, tgFiles>>

\* cancel (250-262), for the message with id m
cancel(m) ==
    /\ UNCHANGED exceptTg
    /\ events[m] # "none" \/ m \in active_tasks
    /\ events' = [events EXCEPT ![m] = IF @ = "none" THEN @ ELSE "set"]
    /\ active_tasks' = active_tasks \ {m}
    /\ req' = [req EXCEPT ![m] =
           IF m \in active_tasks /\ @.task = "running"
           THEN [@ EXCEPT !.task = "cancelled"] ELSE @]
    /\ UNCHANGED <<active, tgFiles>>

\* lines 355-361: CancelledError at `await task`
TgCancelled(r) ==
    /\ UNCHANGED exceptTg
    /\ req[r].pc = "fetching" /\ req[r].task = "cancelled"
    /\ Finished(r, "cancelled")
    /\ Finally(r)
    /\ UNCHANGED <<active_tasks, tgFiles>>

\* process_url, lines 452-460: ytdlp_download is started
\* The platforms detect_platform can report that process_url resolves to a
\* YouTube search first (lines 403-449), two of YTDLP_SUPPORTED (107-111),
\* and "unknown".
NoNative    == {"spotify", "deezer", "apple_music", "jiosaavn"}
PuPlatforms == NoNative \cup {"youtube", "soundcloud", "unknown"}

\* lines 452-460: the yt-dlp branch is entered and ytdlp_download started
FetchAs(q, p) == [q EXCEPT !.pc = "pu_fetching", !.platform = p, !.fetched = TRUE]

\* lines 397-460: up to the first await that matters
PuStart(r, f, p) ==
    /\ UNCHANGED exceptTg
    /\ req[r].pc = "idle"
    /\ LET q == [NoRequest EXCEPT !.kind = "url", !.fid = f, !.platform = p] IN
       req' = [req EXCEPT ![r] =
           IF p \in NoNative THEN [q EXCEPT !.pc = "pu_resolving"]
           ELSE IF p = "unknown" THEN [q EXCEPT !.pc = "done", !.result = "None"]
           ELSE FetchAs(q, p)]
    /\ UNCHANGED <<active, events, active_tasks, tgFiles>>

\* lines 408, 418: `if not resolved`; lines 434, 447: `except Exception`
ResolutionFailed_Never(res) == FALSE
ResolutionFailed(res) == res = "None"

\* lines 405-449: the metadata extraction of the resolver is over: it gave
\* a "ytsearch1:" query, or None (spotify_to_youtube, deezer_resolve) or an
\* exception (apple_music, jiosaavn)
PuResolved(r, res) ==
    /\ UNCHANGED exceptTg
    /\ req[r].pc = "pu_resolving"
    /\ LET q == [req[r] EXCEPT !.resolved = res] IN
       req' = [req EXCEPT ![r] =
           IF ResolutionFailed(res)
           THEN [q EXCEPT !.pc = "done", !.result = "None"]
           ELSE FetchAs(q, "youtube")]
    /\ UNCHANGED <<active, events, active_tasks, tgFiles>>

PuResults == {"short", "long", "DownloadError"}

\* lines 460-505: the download is over; then the duration guard (473-480)
PuDownloaded(r, o) ==
    /\ UNCHANGED exceptTg
    /\ req[r].pc = "pu_fetching"
    /\ Finished(r, CASE o = "short" -> "media"
                     [] o = "long" -> "too_long"
                     [] o = "DownloadError" -> "None")
    /\ UNCHANGED <<active, events, active_tasks, tgFiles>>

TgReturn(r) ==
    /\ UNCHANGED exceptTg
    /\ req[r].pc = "done"
    /\ req' = [req EXCEPT ![r] = NoRequest]
    /\ UNCHANGED <<active, events, active_tasks, tgFiles>>

TgNext ==
    \/ \E r \in TgReqs, f \in TgFileIds, g \in Guards : TgStart(r, f, g)
    \/ \E r \in TgReqs : TgReject(r)
    \/ \E r \in TgReqs : TgDup(r)
    \/ \E r \in TgReqs, ok \in BOOLEAN : TgFetched(r, ok)
    \/ \E r \in TgReqs : TgComplete(r)
    \/ \E m \in TgReqs : cancel(m)
    \/ \E r \in TgReqs : TgCancelled(r)
    \/ \E r \in TgReqs, f \in TgFileIds, p \in PuPlatforms : PuStart(r, f, p)
    \/ \E r \in TgReqs, res \in {"None", "ytsearch1"} : PuResolved(r, res)
    \/ \E r \in TgReqs, o \in PuResults : PuDownloaded(r, o)
    \/ \E r \in TgReqs : TgReturn(r)

TgStartState == CallInit /\ AtRest
TgSpec == TgStartState /\ [][TgNext]_vars

\* C14: on every acquisition path, a source rejected for its duration has
\* had no fetch started when it is rejected.
C14_GuardBeforeFetch ==
    \A r \in TgReqs :
        (req[r].pc = "done" /\ req[r].result = "too_long") => ~req[r].fetched

\* The cancelled download of request r unwinds (CancelledError, finally).
CancelUnwinds(r) ==
    /\ req[r].pc = "fetching" /\ req[r].task = "cancelled"
    /\ req'[r].pc = "done"

\* Request r enters Telegram.download and passes the guards for a file
\* that is neither on disk nor marked active.
FreshRequest(r) ==
    /\ req[r].pc = "idle"
    /\ req'[r].kind = "file"
    /\ req'[r].pc \notin {"idle", "reject"}
    /\ req'[r].fid \notin tgFiles
    /\ req'[r].fid \notin active

\* C15: cancel aborts the running fetch task and drops its task entry; when
\* the cancelled download unwinds, its file id has left the active list
\* and its event and task entries are gone; a request for a file id that
\* is not active (and not on disk) starts a new fetch.
C15_CancelReleasesSlot ==
    [][\A r \in TgReqs :
        /\ (req[r].task = "running" /\ req'[r].pc = "fetching"
                /\ r \in active_tasks /\ r \notin active_tasks')
               => req'[r].task = "cancelled"
        /\ CancelUnwinds(r) =>
               /\ req'[r].result = "cancelled"
               /\ req[r].fid \notin active'
               /\ events'[r] = "none"
               /\ r \notin active_tasks'
               /\ tgFiles' = tgFiles
        /\ FreshRequest(r) =>
               /\ req'[r].pc = "fetching" /\ req'[r].task = "running"
               /\ req'[r].fid \in active'
               /\ r \in active_tasks']_vars

\* A download was cancelled, and a later request fetches the same file.
C15_Witness ==
    \E r1, r2 \in TgReqs :
        /\ req[r1].pc = "done" /\ req[r1].result = "cancelled"
        /\ req[r2].pc = "fetching" /\ req[r2].task = "running"
        /\ req[r2].fid = req[r1].fid
        /\ active = {req[r2].fid}
        /\ active_tasks = {r2}

\* Two chats, each with the operations of one task: with one task per chat
\* nothing waits behind another task of the same chat, so the steps that
\* follow such a wait are left out.
ChatOf(t) == ((t - 1) % NumChats) + 1

PairFrontEnd ==
    \/ \E c \in Chats, path \in BOOLEAN, mid \in {0, GivenMsg} : Enqueue(c, path, mid)
    \/ \E t \in Tasks, seek \in SeekTimes : StartPlayMedia(t, ChatOf(t), seek)
    \/ \E t \in Tasks : StartStop(t, ChatOf(t))
    \/ \E t \in Tasks : StartPlayNext(t, ChatOf(t))
    \/ \E t \in Tasks : StartReplay(t, ChatOf(t))

PairStep(t) ==
    \/ StopEnter(t)
    \/ \E ok \in BOOLEAN : StopLeave(t, ok)
    \/ PlayMediaEnter(t)
    \/ PlayMediaGuard(t)
    \/ \E o \in PlayOutcomes : PlayMediaResult(t, o)
    \/ \E r \in CardResults : PlayMediaCard(t, r)
    \/ PlayMediaSeekReturn(t)
    \/ PlayNextStart(t)
    \/ PlayNextDeleted(t)
    \/ \E ok \in BOOLEAN : PlayNextSent(t, ok)
    \/ \E ok \in BOOLEAN : PlayNextDownloaded(t, ok)
    \/ PlayNextAfterStop(t)
    \/ \E ok \in BOOLEAN : PlayNextAfterStopFail(t, ok)
    \/ PlayNextAfterPlay(t)
    \/ ReplayStart(t)
    \/ \E ok \in BOOLEAN : ReplaySent(t, ok)
    \/ ReplayAfterPlay(t)

PairNext == PairFrontEnd \/ \E t \in Tasks : PairStep(t)
PairStart == CallInit /\ AtRest
PairSpec == PairStart /\ [][PairNext]_vars

\* ------------------------------------------------------------------------
\*  Event dispatch
\* ------------------------------------------------------------------------
\* The step creates exactly one task, for operation op on chat c: one idle
\* task gets a single frame at the entry of op, which has not run yet and
\* which nobody awaits; every other task is where it was.
SchedulesOne(op, c) ==
    /\ \E t \in Tasks :
          /\ Idle(t)
          /\ Len(stack'[t]) = 1
          /\ [stack'[t][1] EXCEPT !.quiet = FALSE, !.ended = NoMedia,
                                   !.stream = "none"] = Frame(op, c, NoMedia, 0, 0)
          /\ \A w \in Tasks \ {t} : stack'[w] = Disturb(stack)[w]
    /\ running' = 0

SchedulesNothing == stack' = Disturb(stack) /\ running' = running

\* C16: a StreamEnded update of type AUDIO or VIDEO makes update_handler
\* create exactly one play_next(chat) task, which it does not await; a
\* StreamEnded update of another type creates nothing.
C16_StreamEndedSchedulesNext ==
    [][update'.kind = "StreamEnded" =>
        /\ UNCHANGED <<queue, media, calls, locks, locked>>
        /\ IF update'.what \in {"AUDIO", "VIDEO"}
           THEN SchedulesOne("play_next", update'.chat)
           ELSE SchedulesNothing]_vars

\* A StreamEnded update has just scheduled play_next while another task is
\* in the middle of an operation.
C16_Witness ==
    /\ update.kind = "StreamEnded" /\ update.what \in {"AUDIO", "VIDEO"}
    /\ \E t, w \in Tasks :
          /\ t # w
          /\ Len(stack[t]) = 1
          /\ stack[t][1].op = "play_next" /\ stack[t][1].pc = "enter"
          /\ stack[w] # <<>> /\ stack[w][1].pc # "enter"

\* C17: a ChatUpdate with status KICKED, LEFT_GROUP or CLOSED_VOICE_CHAT
\* makes update_handler create one stop(chat) task, which it does not
\* await; any other ChatUpdate, and MutedStream / UnMutedStream, create no
\* task and change no queue, call or lock state.
C17_ChatUpdateSchedulesStop ==
    [][update'.kind \in {"ChatUpdate", "MutedStream", "UnMutedStream"} =>
        /\ UNCHANGED <<queue, media, calls, locks, locked>>
        /\ IF /\ update'.kind = "ChatUpdate"
              /\ update'.what \in {"KICKED", "LEFT_GROUP", "CLOSED_VOICE_CHAT"}
           THEN SchedulesOne("stop", update'.chat)
           ELSE SchedulesNothing]_vars

\* A terminal ChatUpdate has just scheduled stop on a chat with a call,
\* while another task is in the middle of an operation.
C17_Witness ==
    /\ update.kind = "ChatUpdate"
    /\ calls[update.chat] # "none"
    /\ \E t, w \in Tasks :
          /\ t # w
          /\ Len(stack[t]) = 1
          /\ stack[t][1].op = "stop" /\ stack[t][1].pc = "enter"
          /\ stack[w] # <<>> /\ stack[w][1].pc # "enter"

\* ------------------------------------------------------------------------
\*  Message failures, failed downloads, chats
\* ------------------------------------------------------------------------
\* Task t is at the `await app.send_message(...)` of play_next (line 272)
\* or replay (line 248), with a descriptor to play.
SendingPlaceholder(t) ==
    /\ ~Idle(t)
    /\ Top(t).op \in {"play_next", "replay"}
    /\ Top(t).pc = "sending"
    /\ Top(t).m # NoMedia

\* C18: a failed message send, edit or delete never propagates out of the
\* operation and never keeps it from its remaining steps: whatever the
\* outcome of the placeholder send, the operation is still in progress
\* after it (it goes on to download or play the descriptor).
C18_MessageFailureSwallowed ==
    [][\A t \in Tasks : SendingPlaceholder(t) => stack'[t] # <<>>]_vars

\* play_next of task t has had its download fail and is awaiting the
\* stop it invoked (line 278).
FailedDownloadPending(t) ==
    /\ Len(stack[t]) >= 2
    /\ stack[t][Len(stack[t]) - 1].op = "play_next"
    /\ stack[t][Len(stack[t]) - 1].pc = "after_stop_fail"
    /\ Top(t).op = "stop"

\* C19: when the download of the new current descriptor fails, play_next
\* tears the call down: the stop it invokes runs to completion, so with no
\* other operation in flight the task can always take its next step.
C19_FailedDownloadTearsDown ==
    \A t \in Tasks : (FailedDownloadPending(t) /\ Alone(t)) => ENABLED TaskStep(t)

\* Task t starts or takes a step of an operation (frames compared
\* without their history flag).
Acts(t) == Disturb(stack')[t] # Disturb(stack)[t]

\* The frames of the stacks st that hold lock object l.
Holders(st, l) ==
    {f \in UNION {{st[t][i] : i \in 1..Len(st[t])} : t \in Tasks} :
        Holding(f) /\ f.lk = l}

\* C20: operations on different chats are independent: a step of an
\* operation on one chat leaves the queue, the call state and the lock
\* entry of every other chat unchanged; two chats never share a lock
\* object; and a frame that waits for a lock waits only for frames of its
\* own chat.
C20_ChatsIndependent ==
    [][/\ \A t \in Tasks : Acts(t) =>
              \A c \in Chats \ {ChatOf(t)} :
                  /\ queue'[c] = queue[c]
                  /\ calls'[c] = calls[c]
                  /\ locks'[c] = locks[c]
       /\ \A a, b \in Chats : (a # b /\ locks'[a] # NoLock) => locks'[a] # locks'[b]
       /\ \A t \in Tasks : \A i \in 1..Len(stack'[t]) :
              Waiting(stack'[t][i]) =>
                  /\ \A g \in Holders(stack', stack'[t][i].lk) : g.chat = stack'[t][i].chat
                  /\ \A c \in Chats \ {stack'[t][i].chat} : locks'[c] # stack'[t][i].lk]_vars

\* Both chats have an operation inside its locked section at once, each
\* under the lock of its own chat.
C20_Witness ==
    \E t, u \in Tasks :
        /\ ~Idle(t) /\ ~Idle(u)
        /\ Top(t).chat # Top(u).chat
        /\ Holding(Top(t)) /\ Holding(Top(u))
        /\ locked[Top(t).lk] /\ locked[Top(u).lk]
        /\ calls[Top(t).chat] # "none"

\* ------------------------------------------------------------------------
\*  stop, replay
\* ------------------------------------------------------------------------
\* The stop on top of task t's stack is in state pc.
StopAt(t, pc) == ~Idle(t) /\ Top(t).op = "stop" /\ Top(t).pc \in pc

\* C21: stop, once it holds the chat lock, clears the queue, removes the
\* call state and discards the chat's lock entry before it asks the
\* transport to leave; whether leave_call succeeds or raises, stop then
\* returns to its caller (it is not unwound) with its lock released and
\* without touching the three stores again.
C21_StopTearsDownAndReturns ==
    [][\A t \in Tasks :
        /\ (StopAt(t, {"enter", "wait"}) /\ Len(stack'[t]) = Len(stack[t])
                /\ stack'[t][Len(stack[t])].pc = "leaving") =>
               LET g == stack'[t][Len(stack[t])] IN
               /\ locked'[g.lk]
               /\ queue'[g.chat] = <<>>
               /\ calls'[g.chat] = "none"
               /\ locks'[g.chat] = NoLock
        /\ (StopAt(t, {"leaving"}) /\ Acts(t)) =>
               /\ stack'[t] = Pop(stack[t])
               /\ ~locked'[Top(t).lk]
               /\ UNCHANGED <<queue, calls, locks>>]_vars

\* A stop that began on a chat with something to tear down has done its
\* removals and awaits leave_call under the lock.
C21_Witness ==
    \E t \in Tasks :
        /\ StopAt(t, {"leaving"})
        /\ ~Top(t).quiet
        /\ locked[Top(t).lk]
        /\ queue[Top(t).chat] = <<>>
        /\ calls[Top(t).chat] = "none"
        /\ locks[Top(t).chat] = NoLock

\* The replay on top of task t's stack is in state pc.
ReplayAt(t, pc) == ~Idle(t) /\ Top(t).op = "replay" /\ Top(t).pc = pc

\* Task t's replay calls play_media in this step.
ReplayIssuesPlay(t) ==
    /\ ReplayAt(t, "sending")
    /\ Len(stack'[t]) = Len(stack[t]) + 1

\* What replay does apart from the choice of descriptor: without a Call
\* it returns at once, having sent nothing and changed nothing; with a
\* Call it goes on to send a message; the play_media it then calls has
\* seek offset zero and that new message; no step of replay itself
\* changes the queue.
ReplayFrame(t) ==
    /\ (ReplayAt(t, "enter") /\ Acts(t)) =>
           /\ UNCHANGED <<queue, calls, locks, locked>>
           /\ IF calls[Top(t).chat] = "none"
              THEN stack'[t] = Pop(stack[t])
              ELSE /\ Len(stack'[t]) = Len(stack[t])
                   /\ stack'[t][Len(stack[t])].pc = "sending"
                   /\ stack'[t][Len(stack[t])].m = get_current(Top(t).chat)
    /\ ReplayIssuesPlay(t) =>
           LET g == stack'[t][Len(stack'[t])] IN
           /\ g.op = "play_media" /\ g.pc = "enter"
           /\ g.chat = Top(t).chat
           /\ g.seek = 0
           /\ g.msg = GivenMsg
           /\ UNCHANGED <<queue, calls, locks, locked>>

\* C22: replay on a chat with no Call is a no-op; on a chat with a Call it
\* issues play_media for the queue's current descriptor with seek offset
\* zero and a freshly sent message, without advancing the queue.
C22_ReplayPlaysCurrent ==
    [][\A t \in Tasks :
        /\ ReplayFrame(t)
        /\ ReplayIssuesPlay(t) =>
               stack'[t][Len(stack'[t])].m = get_current(Top(t).chat)]_vars

\* ------------------------------------------------------------------------
\*  set_volume                                          calls.py 124-133
\* ------------------------------------------------------------------------
max(a, b) == IF a >= b THEN a ELSE b
min(a, b) == IF a <= b THEN a ELSE b

\* The volumes asked for: from below 0 to above 200.
VolumeInputs == (0 - VolumeMargin)..(200 + VolumeMargin)

\* line 131: volume = max(0, min(200, volume))
Clamp_Unclamped(v) == v
Clamp(v) == max(0, min(200, v))

\* lines 131-133
set_volume(c, v) ==
    /\ UNCHANGED exceptCtl
    /\ volumeCall' = [chat |-> c, asked |-> v, volume |-> Clamp(v)]
    /\ UNCHANGED <<detected, pauseCall>>

VolumeNext == \E c \in OneChat, v \in VolumeInputs : set_volume(c, v)
VolumeStart == CallInit /\ AtRest
VolumeSpec == VolumeStart /\ [][VolumeNext]_vars

\* C23: the volume set_volume passes to change_volume_call is in 0..200:
\* 0 for a request below 0, 200 for a request above 200, the request itself
\* otherwise; -10 gives 0, 250 gives 200, 100 gives 100.
C23_VolumeClamped ==
    volumeCall # NoVolumeCall =>
        /\ volumeCall.volume \in 0..200
        /\ volumeCall.asked < 0 => volumeCall.volume = 0
        /\ volumeCall.asked > 200 => volumeCall.volume = 200
        /\ volumeCall.asked \in 0..200 => volumeCall.volume = volumeCall.asked
        /\ volumeCall.asked = 0 - 10 => volumeCall.volume = 0
        /\ volumeCall.asked = 250 => volumeCall.volume = 200
        /\ volumeCall.asked = 100 => volumeCall.volume = 100

C23_Witness ==
    volumeCall.chat # 0 /\ volumeCall.asked = 250 /\ volumeCall.volume = 200

\* ------------------------------------------------------------------------
\*  Platform routing
\* ------------------------------------------------------------------------
\* C24: for a URL of spotify, deezer, apple_music or jiosaavn, process_url
\* first extracts metadata and starts no download meanwhile; if the
\* extraction fails the request ends without media and without any
\* download having been started; if it succeeds the request goes on, with
\* the search query, as platform youtube.
C24_ResolveOrFail ==
    [][\A r \in TgReqs :
        /\ (req[r].pc = "idle" /\ req'[r].platform \in NoNative) =>
               req'[r].pc = "pu_resolving" /\ ~req'[r].fetched
        /\ (req[r].pc = "pu_resolving" /\ req'[r] # req[r]) =>
               IF req'[r].resolved = "None"
               THEN /\ req'[r].pc = "done"
                    /\ req'[r].result = "None"
                    /\ ~req'[r].fetched
               ELSE /\ req'[r].resolved = "ytsearch1"
                    /\ req'[r].pc = "pu_fetching"
                    /\ req'[r].platform = "youtube"]_vars

\* One request failed to resolve and ended without a download; another
\* was resolved and is downloaded as a YouTube search.
C24_Witness ==
    \E r1, r2 \in TgReqs :
        /\ req[r1].pc = "done" /\ req[r1].resolved = "None"
        /\ req[r1].result = "None" /\ ~req[r1].fetched
        /\ req[r2].pc = "pu_fetching" /\ req[r2].resolved = "ytsearch1"
        /\ req[r2].platform = "youtube"

\* ------------------------------------------------------------------------
\*  detect_platform                                   telegram.py 24-92
\* ------------------------------------------------------------------------
\* The part of Python's `re` the patterns use.  A pattern is a tree; the
\* URL is a string; positions count from 1.
Lit(s)     == [k |-> "lit", s |-> s]
Some(cls)  == [k |-> "rep", cls |-> cls, neg |-> FALSE, least |-> 1]   \* [cls]+
NonSpace(least) == [k |-> "rep", cls |-> {" "}, neg |-> TRUE, least |-> least]  \* \S+, \S*
Opt(n)     == [k |-> "opt", n |-> n]                                   \* (?:n)?
Alt(ns)    == [k |-> "alt", ns |-> ns]                                 \* a|b|c
Cat(ns)    == [k |-> "cat", ns |-> ns]

Upper == "ABCDEFGHIJKLMNOPQRSTUVWXYZ"
Lower == "abcdefghijklmnopqrstuvwxyz"
Digit == "0123456789"

At(s, i) == SubSeq(s, i, i)
Chars(s) == {At(s, j) : j \in 1..Len(s)}
Word  == Chars(Lower) \cup Chars(Upper) \cup Chars(Digit) \cup {"_"}     \* \w
InClass(c, cls, neg) == neg # (c \in cls)

\* re.IGNORECASE: letters are compared without their case.
FoldMap == [c \in Chars(Upper) |-> At(Lower, CHOOSE j \in 1..26 : At(Upper, j) = c)]
Fold(c) == IF c \in DOMAIN FoldMap THEN FoldMap[c] ELSE c
SameFolded(s, u, i) == \A j \in 1..Len(s) : Fold(At(u, i + j - 1)) = Fold(At(s, j))

\* The positions right after a match of node n that starts at position i.
RECURSIVE Ends(_, _, _)
RECURSIVE CatEnds(_, _, _, _)
RECURSIVE AltEnds(_, _, _, _)
Ends(n, u, i) ==
    CASE n.k = "lit" ->
             IF i + Len(n.s) - 1 <= Len(u) /\ SameFolded(n.s, u, i)
             THEN {i + Len(n.s)} ELSE {}
      [] n.k = "rep" ->
             {j \in (i + n.least)..(Len(u) + 1) :
                 \A p \in i..(j - 1) : InClass(At(u, p), n.cls, n.neg)}
      [] n.k = "opt" -> {i} \cup Ends(n.n, u, i)
      [] n.k = "alt" -> AltEnds(n.ns, 1, u, i)
      [] n.k = "cat" -> CatEnds(n.ns, 1, u, {i})
CatEnds(ns, j, u, from) ==
    IF j > Len(ns) \/ from = {} THEN from
    ELSE CatEnds(ns, j + 1, u, UNION {Ends(ns[j], u, i) : i \in from})
AltEnds(ns, j, u, i) ==
    IF j > Len(ns) THEN {}
    ELSE Ends(ns[j], u, i) \cup AltEnds(ns, j + 1, u, i)

\* re.search: a match may start anywhere.
search(pattern, u) == \E i \in 1..(Len(u) + 1) : Ends(pattern, u, i) # {}

\* Pieces the patterns share.
Http == Opt(Cat(<<Lit("http"), Opt(Lit("s")), Lit("://")>>))           \* (?:https?://)?
Www  == Opt(Lit("www."))                                               \* (?:www\.)?
Id   == Some(Word \cup {"-"})                                              \* [\w-]+
Num  == Some(Chars(Digit))                                                    \* \d+

\* lines 24-82, in the order of the dict
PLATFORM_PATTERNS == <<
    [platform |-> "youtube", patterns |-> <<
        Cat(<<Http, Opt(Alt(<<Lit("www."), Lit("m.")>>)), Lit("youtube.com/watch?v="), Id>>),
        Cat(<<Http, Lit("youtu.be/"), Id>>),
        Cat(<<Http, Www, Lit("youtube.com/shorts/"), Id>>),
        Cat(<<Http, Lit("music.youtube.com/watch?v="), Id>>) >>],
    [platform |-> "spotify", patterns |-> <<
        Cat(<<Http, Lit("open.spotify.com/"),
              Alt(<<Lit("track"), Lit("album"), Lit("playlist"), Lit("episode")>>),
              Lit("/"), Some(Word)>>) >>],
    [platform |-> "soundcloud", patterns |-> <<
        Cat(<<Http, Www, Lit("soundcloud.com/"), Id, Lit("/"), Id>>),
        Cat(<<Http, Lit("on.soundcloud.com/"), Id>>) >>],
    [platform |-> "apple_music", patterns |-> <<
        Cat(<<Http, Lit("music.apple.com/"), Id, Lit("/"),
              Alt(<<Lit("album"), Lit("playlist"), Lit("song")>>),
              Lit("/"), Some(Word \cup {"-", "/"})>>) >>],
    [platform |-> "instagram", patterns |-> <<
        Cat(<<Http, Www, Lit("instagram.com/"),
              Alt(<<Lit("p"), Lit("reel"), Lit("tv")>>), Lit("/"), Id>>) >>],
    [platform |-> "facebook", patterns |-> <<
        Cat(<<Http, Www, Lit("facebook.com/"),
              Alt(<<Lit("watch?v="), Cat(<<Some(Word \cup {"."}), Lit("/videos/")>>)>>), Id>>),
        Cat(<<Http, Lit("fb.watch/"), Id>>) >>],
    [platform |-> "twitter", patterns |-> <<
        Cat(<<Http, Www, Alt(<<Lit("twitter"), Lit("x")>>), Lit(".com/"), Id,
              Lit("/status/"), Num>>) >>],
    [platform |-> "tiktok", patterns |-> <<
        Cat(<<Http, Www, Lit("tiktok.com/@"), Some(Word \cup {".", "-"}), Lit("/video/"), Num>>),
        Cat(<<Http, Lit("vm.tiktok.com/"), Id>>),
        Cat(<<Http, Lit("vt.tiktok.com/"), Id>>) >>],
    [platform |-> "twitch", patterns |-> <<
        Cat(<<Http, Www, Lit("twitch.tv/videos/"), Num>>),
        Cat(<<Http, Lit("clips.twitch.tv/"), Id>>),
        Cat(<<Http, Www, Lit("twitch.tv/"), Id, Lit("/clip/"), Id>>) >>],
    [platform |-> "deezer", patterns |-> <<
        Cat(<<Http, Www, Lit("deezer.com/"), Opt(Cat(<<Id, Lit("/")>>)),
              Alt(<<Lit("track"), Lit("album"), Lit("playlist")>>), Lit("/"), Num>>) >>],
    [platform |-> "jiosaavn", patterns |-> <<
        Cat(<<Http, Www, Lit("jiosaavn.com/song/"), Id>>),
        Cat(<<Http, Www, Lit("jiosaavn.com/album/"), Id>>) >>],
    [platform |-> "gaana", patterns |-> <<
        Cat(<<Http, Www, Lit("gaana.com/song/"), Id>>) >>],
    [platform |-> "vimeo", patterns |-> <<
        Cat(<<Http, Www, Lit("vimeo.com/"), Num>>),
        Cat(<<Http, Lit("player.vimeo.com/video/"), Num>>) >>],
    [platform |-> "dailymotion", patterns |-> <<
        Cat(<<Http, Www, Lit("dailymotion.com/video/"), Id>>),
        Cat(<<Http, Lit("dai.ly/"), Id>>) >>],
    [platform |-> "m3u8", patterns |-> <<
        Cat(<<Lit("http"), Opt(Lit("s")), Lit("://"), NonSpace(1), Lit(".m3u8"),
              Opt(Cat(<<Lit("?"), NonSpace(0)>>))>>) >>],
    [platform |-> "telegram", patterns |-> << >>] >>

\* lines 88-92: the two nested loops, from entry k of the table on
RECURSIVE FirstMatch(_, _)
FirstMatch(url, k) ==
    IF k > Len(PLATFORM_PATTERNS) THEN "unknown"
    ELSE IF \E j \in 1..Len(PLATFORM_PATTERNS[k].patterns) :
                search(PLATFORM_PATTERNS[k].patterns[j], url)
         THEN PLATFORM_PATTERNS[k].platform
         ELSE FirstMatch(url, k + 1)

RECURSIVE LastMatch(_, _)
LastMatch(url, k) ==
    IF k < 1 THEN "unknown"
    ELSE IF \E j \in 1..Len(PLATFORM_PATTERNS[k].patterns) :
                search(PLATFORM_PATTERNS[k].patterns[j], url)
         THEN PLATFORM_PATTERNS[k].platform
         ELSE LastMatch(url, k - 1)

detect_platform_LastMatch(url) == LastMatch(url, Len(PLATFORM_PATTERNS))
detect_platform(url) == FirstMatch(url, 1)

\* The URLs tried: a scheme, a host and the start of a path, the rest.
Schemes == {"", "http://", "https://"}
Stems == {
    "youtu.be/", "www.youtube.com/watch?v=", "m.youtube.com/watch?v=",
    "youtube.com/shorts/", "music.youtube.com/watch?v=", "YouTube.com/watch?v=",
    "open.spotify.com/track/", "open.spotify.com/artist/",
    "soundcloud.com/", "on.soundcloud.com/",
    "music.apple.com/us/album/", "www.instagram.com/reel/",
    "facebook.com/watch?v=", "fb.watch/", "x.com/", "twitter.com/",
    "vm.tiktok.com/", "www.twitch.tv/videos/", "clips.twitch.tv/",
    "www.deezer.com/en/track/", "deezer.com/track/",
    "www.jiosaavn.com/song/", "gaana.com/song/", "vimeo.com/",
    "player.vimeo.com/video/", "dai.ly/", "example.com/",
    "notaplatform.test/", "t.me/" }
Rests == {"x", "dQw4w9WgXcQ", "abc123", "12345", "file.m3u8",
          "user/status/42", "a/b.m3u8?k=1"}
Urls == {sc \o st \o rs : sc \in Schemes, st \in Stems, rs \in Rests}

\* detect_platform is applied to the URL at hand.
Detect ==
    /\ UNCHANGED exceptCtl
    /\ detected.platform = "none" /\ detected.url # ""
    /\ detected' = [detected EXCEPT !.platform = detect_platform(detected.url)]
    /\ UNCHANGED <<volumeCall, pauseCall>>

PlatformNext == Detect
PlatformStart ==
    /\ CallInit /\ YtIdle /\ TgInit /\ BotInit
    /\ volumeCall = NoVolumeCall
    /\ pauseCall = NoPauseCall
    /\ detected \in {[url |-> u, platform |-> "none"] : u \in Urls}
PlatformSpec == PlatformStart /\ [][PlatformNext]_vars

\* Entry k of the table has a pattern that is found in url.
EntryMatches(k, url) ==
    \E j \in 1..Len(PLATFORM_PATTERNS[k].patterns) :
        search(PLATFORM_PATTERNS[k].patterns[j], url)

\* C25: detect_platform gives, for every URL, the platform of the first
\* entry of the table with a matching pattern, and "unknown" when no entry
\* matches; the four URLs named give youtube, spotify, m3u8 and unknown.
C25_FirstMatchInTableOrder ==
    detected.platform # "none" =>
        LET hits == {k \in 1..Len(PLATFORM_PATTERNS) : EntryMatches(k, detected.url)} IN
        /\ hits = {} => detected.platform = "unknown"
        /\ hits # {} =>
               \E k \in hits : /\ \A h \in hits : k <= h
                               /\ detected.platform = PLATFORM_PATTERNS[k].platform
        /\ detected.url = "https://youtu.be/dQw4w9WgXcQ" => detected.platform = "youtube"
        /\ detected.url = "https://open.spotify.com/track/abc123"
               => detected.platform = "spotify"
        /\ detected.url = "https://example.com/file.m3u8" => detected.platform = "m3u8"
        /\ detected.url = "https://notaplatform.test/x" => detected.platform = "unknown"

\* A URL that matches the patterns of two platforms got the earlier one.
C25_Witness ==
    /\ detected.platform = "soundcloud"
    /\ EntryMatches(15, detected.url)

\* ------------------------------------------------------------------------
\*  The cookie pool, drawing
\* ------------------------------------------------------------------------
\* Download d calls get_cookies in this step (line 382) and keeps what it
\* returns.
Draws_(d) == dl'[d].attempt = dl[d].attempt + 1

\* C26: get_cookies returns a member of the pool when the pool (loaded
\* from the directory on first use) is not empty and None exactly when it
\* is empty; the "no cookies" warning is logged at most once.
C26_DrawFromPoolWarnOnce ==
    [][/\ \A d \in Downloads : Draws_(d) =>
              /\ cookies' = Loaded
              /\ (dl'[d].cookie = NoCookie) <=> (cookies' = {})
              /\ dl'[d].cookie # NoCookie => dl'[d].cookie \in cookies'
       /\ warnings' <= 1
       /\ warnings' # warnings => (cookies' = {} /\ ~warned /\ warned')]_vars

\* The warning has been logged, get_cookies has been asked again with the
\* pool still empty, and after a refresh a download drew a cookie.
C26_Witness ==
    /\ warnings = 1
    /\ \E d, e \in Downloads :
          /\ dl[d].pc = "fetching" /\ dl[d].cookie = NoCookie /\ dl[d].attempt = 2
          /\ dl[e].pc = "fetching" /\ dl[e].cookie \in cookies

\* ------------------------------------------------------------------------
\*  TgCall.active_calls                                  calls.py 301-309
\* ------------------------------------------------------------------------
\* What `await client.get_active_calls()` gives: a list, as its length, or
\* an exception.
Raised == [raised |-> TRUE, n |-> 0]
Answers == {[raised |-> FALSE, n |-> k] : k \in 0..MaxActive} \cup {Raised}

\* TgCall.boot, line 397: self.clients.append(client)
Register ==
    /\ UNCHANGED exceptBot
    /\ clients < MaxClients
    /\ clients' = clients + 1
    /\ UNCHANGED <<ac, botLife, sudoVars>>

\* line 304: the `for` statement asks the list for its next element
LoopFrom(i, total, answers) ==
    IF i < clients
    THEN [pc |-> "querying", i |-> i, total |-> total, answers |-> answers, result |-> 0]
    ELSE [pc |-> "done", i |-> i, total |-> total, answers |-> answers, result |-> total]

\* lines 303-306, up to the first await
ActiveCallsEnter ==
    /\ UNCHANGED exceptBot
    /\ ac.pc = "idle"
    /\ ac' = LoopFrom(0, 0, <<>>)
    /\ UNCHANGED <<clients, botLife, sudoVars>>

\* lines 307-308: except Exception: pass; the loop goes on with the client
\* after i.  n is len(self.clients).
AfterRaise_Abort(i, n) == n
AfterRaise(i, n) == i + 1

\* lines 306-309: connection i+1 answered
ActiveCallsQueried(a) ==
    /\ UNCHANGED exceptBot
    /\ ac.pc = "querying"
    /\ ac' = IF a.raised
             THEN LoopFrom(AfterRaise(ac.i, clients), ac.total, Append(ac.answers, a))
             ELSE LoopFrom(ac.i + 1, ac.total + a.n, Append(ac.answers, a))
    /\ UNCHANGED <<clients, botLife, sudoVars>>

\* the caller has the result
ActiveCallsReturn ==
    /\ UNCHANGED exceptBot
    /\ ac.pc = "done"
    /\ ac' = NoCount
    /\ UNCHANGED <<clients, botLife, sudoVars>>

ActiveNext ==
    \/ Register
    \/ ActiveCallsEnter
    \/ \E a \in Answers : ActiveCallsQueried(a)
    \/ ActiveCallsReturn

ActiveStart == CallInit /\ AtRest
ActiveSpec == ActiveStart /\ [][ActiveNext]_vars

\* The sum of the answers that are counts.
RECURSIVE SumOfCounts(_)
SumOfCounts(answers) ==
    IF answers = <<>> THEN 0
    ELSE (IF Head(answers).raised THEN 0 ELSE Head(answers).n)
         + SumOfCounts(Tail(answers))

\* C27: active_calls asks every registered connection and returns the sum
\* of the counts of those that answered; one that raises adds 0 and the
\* loop goes on; with no connection the result is 0.
C27_SumOfAnswered ==
    [][(ac'.pc = "done" /\ ac.pc # "done") =>
          /\ Len(ac'.answers) = clients
          /\ ac'.result = SumOfCounts(ac'.answers)
          /\ clients = 0 => ac'.result = 0]_vars

\* A connection raised, one asked after it answered, and the sum is its
\* count.
C27_Witness ==
    /\ ac.pc = "done"
    /\ \E i, j \in 1..Len(ac.answers) :
          i < j /\ ac.answers[i].raised /\ ac.answers[j].n > 0
    /\ ac.result > 0

\* ------------------------------------------------------------------------
\*  Bot: boot, signals, exit                   bot.py 129-147, 153-280
\* ------------------------------------------------------------------------
Signals == {"SIGINT", "SIGTERM", "SIGABRT"}

\* line 168: boot awaits _connect_with_retry, which awaits super().start()
BootStart ==
    /\ UNCHANGED exceptBot
    /\ boot = "new"
    /\ boot' = "connecting"
    /\ UNCHANGED <<bot_running, exits, notified, stopped, clients, ac, sudoVars>>

ConnectOutcomes == {"connected", "FloodWait", "SystemExit"}

\* lines 190-208: start() returned or raised.  "SystemExit" stands for a
\* FloodWait above _BOOT_FLOOD_LIMIT and for an invalid token.
BootConnected(o) ==
    /\ UNCHANGED exceptBot
    /\ boot = "connecting"
    /\ boot' = CASE o = "connected" -> "verifying"
                 [] o = "FloodWait" -> "sleeping"
                 [] o = "SystemExit" -> "failed"
    /\ UNCHANGED <<bot_running, exits, notified, stopped, clients, ac, sudoVars>>

\* line 204: asyncio.sleep(wait) is over, the loop tries again
BootWake ==
    /\ UNCHANGED exceptBot
    /\ boot = "sleeping"
    /\ boot' = "connecting"
    /\ UNCHANGED <<bot_running, exits, notified, stopped, clients, ac, sudoVars>>

\* lines 177, 210-237: _verify_logger returned, or raised SystemExit
BootVerified(ok) ==
    /\ UNCHANGED exceptBot
    /\ boot = "verifying"
    /\ boot' = IF ok THEN "greeting" ELSE "failed"
    /\ UNCHANGED <<bot_running, exits, notified, stopped, clients, ac, sudoVars>>

\* lines 178-183: the startup message was sent or failed (swallowed, 249-253);
\* _running is set and the signal handlers are registered
BootGreeted ==
    /\ UNCHANGED exceptBot
    /\ boot = "greeting"
    /\ boot' = "booted"
    /\ bot_running' = TRUE
    /\ UNCHANGED <<exits, notified, stopped, clients, ac, sudoVars>>

\* lines 137-140: _handle, registered by line 181; exit() is scheduled as
\* task e
Handle(sig, e) ==
    /\ UNCHANGED exceptBot
    /\ boot = "booted"
    /\ exits[e].pc = "idle"
    /\ bot_running' = FALSE
    /\ exits' = [exits EXCEPT ![e] = [NoExit EXCEPT !.pc = "scheduled", !.via = sig]]
    /\ UNCHANGED <<boot, notified, stopped, clients, ac, sudoVars>>

\* line 263: if not self._running
AlreadyDown_Never(r) == FALSE
AlreadyDown(r) == ~r

Via(e) == IF exits[e].pc = "idle" THEN "call" ELSE exits[e].via

\* lines 263-271: exit() up to its first await; e is a direct call or a
\* task a signal scheduled
ExitEnter(e) ==
    /\ UNCHANGED exceptBot
    /\ exits[e].pc \in {"idle", "scheduled"}
    /\ IF AlreadyDown(bot_running)
       THEN /\ exits' = [exits EXCEPT ![e] = [pc |-> "done", via |-> Via(e),
                                                 at |-> boot, ran |-> FALSE]]
            /\ UNCHANGED <<bot_running, notified>>
       ELSE /\ notified < MaxShutdowns
            /\ exits' = [exits EXCEPT ![e] = [pc |-> "notifying", via |-> Via(e),
                                                 at |-> boot, ran |-> TRUE]]
            /\ bot_running' = FALSE
            /\ notified' = notified + 1
    /\ UNCHANGED <<boot, stopped, clients, ac, sudoVars>>

\* lines 271-276: send_message returned or raised (swallowed); stop() is
\* called
ExitNotified(e) ==
    /\ UNCHANGED exceptBot
    /\ exits[e].pc = "notifying"
    /\ stopped < MaxShutdowns
    /\ exits' = [exits EXCEPT ![e].pc = "stopping"]
    /\ stopped' = stopped + 1
    /\ UNCHANGED <<bot_running, boot, notified, clients, ac, sudoVars>>

\* lines 276-280: stop() returned or raised (logged)
ExitStopped(e) ==
    /\ UNCHANGED exceptBot
    /\ exits[e].pc = "stopping"
    /\ exits' = [exits EXCEPT ![e].pc = "done"]
    /\ UNCHANGED <<bot_running, boot, notified, stopped, clients, ac, sudoVars>>

\* line 264 or 280: exit() has returned to its caller
ExitReturn(e) ==
    /\ UNCHANGED exceptBot
    /\ exits[e].pc = "done"
    /\ exits' = [exits EXCEPT ![e] = NoExit]
    /\ UNCHANGED <<bot_running, boot, notified, stopped, clients, ac, sudoVars>>

\* ------------------------------------------------------------------------
\*  Bot: sudoers                                          bot.py 78-99
\* ------------------------------------------------------------------------
Logged(op, u) == <<sudoLog[2], [op |-> op, u |-> u]>>

\* line 80: self.sudoers | filters.user(user_id)
add_sudo(u) ==
    /\ UNCHANGED exceptBot
    /\ sudoers' = sudoers \cup {u}
    /\ sudoLog' = Logged("add", u)
    /\ UNCHANGED <<botLife, clients, ac>>

\* lines 82-91: a warning is logged
remove_sudo(u) ==
    /\ UNCHANGED exceptBot
    /\ UNCHANGED sudoers
    /\ sudoLog' = Logged("remove", u)
    /\ UNCHANGED <<botLife, clients, ac>>

\* lines 93-99; user_ids as the set of its elements
rebuild_sudoers(user_ids) ==
    /\ UNCHANGED exceptBot
    /\ sudoers' = {owner} \cup {uid \in user_ids : uid # owner}
    /\ sudoLog' = Logged("rebuild", 0)
    /\ UNCHANGED <<botLife, clients, ac>>

BotNext ==
    \/ BootStart
    \/ \E o \in ConnectOutcomes : BootConnected(o)
    \/ BootWake
    \/ \E ok \in BOOLEAN : BootVerified(ok)
    \/ BootGreeted
    \/ \E sig \in Signals, e \in ExitCalls : Handle(sig, e)
    \/ \E e \in ExitCalls : ExitEnter(e)
    \/ \E e \in ExitCalls : ExitNotified(e)
    \/ \E e \in ExitCalls : ExitStopped(e)
    \/ \E e \in ExitCalls : ExitReturn(e)
    \/ \E u \in Users : add_sudo(u)
    \/ \E u \in Users : remove_sudo(u)
    \/ \E user_ids \in SUBSET Users : rebuild_sudoers(user_ids)

BotStart == CallInit /\ AtRest
BotSpec == BotStart /\ [][BotNext]_vars

\* C28: after boot, a signal leads to a clean shutdown through exit(): when
\* the exit() a signal scheduled is over, the shutdown notification has
\* been attempted and the client's stop() has been called.
C28_SignalShutsDown ==
    \A e \in ExitCalls :
        (exits[e].pc = "done" /\ exits[e].via \in Signals) =>
            (notified >= 1 /\ stopped >= 1)

\* C29: over any calls of exit(), overlapping ones included, the shutdown
\* notification and the client's stop() happen at most once each, and an
\* exit() entered before boot has finished does nothing.
C29_ExitOnce ==
    [][/\ notified' <= 1
       /\ stopped' <= 1
       /\ \A e \in ExitCalls :
             (exits[e].pc = "idle" /\ exits'[e].pc # "idle" /\ boot # "booted") =>
                 /\ exits'[e].pc = "done"
                 /\ UNCHANGED <<bot_running, notified, stopped>>]_vars

\* One exit() is between its two awaits, after stop() was called, and
\* another, called meanwhile, has returned without doing anything.
C29_Witness ==
    \E e, f \in ExitCalls :
        /\ exits[e].pc = "stopping" /\ exits[e].via = "call"
        /\ exits[f].pc = "done" /\ exits[f].via = "call" /\ ~exits[f].ran
        /\ exits[f].at = "booted"
        /\ stopped = 1 /\ notified = 1

\* C30: after add_sudo(u) then remove_sudo(u), for u other than the owner,
\* u does not pass the sudoers filter; the owner always passes it.
C30_RemoveSudoRemoves ==
    /\ owner \in sudoers
    /\ (/\ sudoLog[1].op = "add" /\ sudoLog[2].op = "remove"
        /\ sudoLog[1].u = sudoLog[2].u /\ sudoLog[2].u # owner)
           => sudoLog[2].u \notin sudoers

\* ------------------------------------------------------------------------
\*  Termination of the locked operations
\* ------------------------------------------------------------------------
\* C31: no task waits for a chat lock that one of its own frames holds
\* (play_media -> stop, play_media -> play_next -> play_media / stop), so
\* every play_media, play_next and stop ends and releases the lock.
C31_NoSelfWait ==
    \A t \in Tasks : \A i \in 1..Len(stack[t]) :
        Waiting(stack[t][i]) => stack[t][i].lk \notin HeldBy(t)

\* C32: a play_next that had popped the queue and was suspended on its
\* send or download when a stop of the chat completed never afterwards has
\* its play_media issue the transport play (and add_call) for that chat.
C32_StoppedStaysStopped ==
    \A t \in Tasks : \A i \in 2..Len(stack[t]) :
        (/\ stack[t][i].op = "play_media"
         /\ stack[t][i].pc \in {"playing", "card"}
         /\ stack[t][i - 1].op = "play_next")
            => ~stack[t][i - 1].stopped

\* C33: when nothing is in flight for a chat that has a Call, the
\* descriptor last handed to the transport play call is the queue's
\* current item.
C33_PlayedIsCurrent ==
    \A c \in Chats : (AllIdle /\ get_call(c)) => onAir[c]

\* The play_next task t was created for a StreamEnded update of the given
\* stream type, delivered when m was the current item, and has popped the
\* queue (line 267).
PoppedFor(t, m, type) ==
    /\ stack[t] # <<>>
    /\ stack[t][1].op = "play_next"
    /\ stack[t][1].ended = m /\ stack[t][1].stream = type
    /\ stack[t][1].pc \notin {"enter", "deleted"}

\* C34: when the transport reports the end of one track with an AUDIO and
\* a VIDEO StreamEnded update, only one item is popped: the two play_next
\* tasks do not both take an item off the queue (the finished track and
\* then its successor, which is skipped).
C34_OnePopPerTrack ==
    \A t, u \in Tasks : \A m \in MediaIds :
        ~(/\ PoppedFor(t, m, "AUDIO") /\ PoppedFor(u, m, "VIDEO")
          /\ (stack[t][1].m # NoMedia \/ stack[u][1].m # NoMedia))

\* ------------------------------------------------------------------------
\*  Telegram.download: duplicate requests
\* ------------------------------------------------------------------------
\* Request r has a download task running (lines 335-339).
TaskRunning(r) ==
    req[r].kind = "file" /\ req[r].pc = "fetching" /\ req[r].task = "running"

\* C35: a file id is in Telegram.active for as long as its download task
\* runs, so overlapping requests for one uncached file start one task.
C35_ActiveWhileRunning ==
    \A r \in TgReqs : TaskRunning(r) =>
        /\ req[r].fid \in active
        /\ \A q \in TgReqs \ {r} : ~(TaskRunning(q) /\ req[q].fid = req[r].fid)

\* C36: a request whose download task ends by itself, having written the
\* file, goes on to return the Media descriptor; it raises nothing.
C36_CompletedReturnsMedia ==
    [][\A r \in TgReqs :
          (/\ TaskRunning(r) /\ req'[r].pc # "fetching"
           /\ req[r].fid \notin tgFiles /\ req[r].fid \in tgFiles')
              => (req'[r].pc = "complete" /\ req'[r].result # "error")]_vars

\* ------------------------------------------------------------------------
\*  pause / resume and the transport                    calls.py 102-112
\* ------------------------------------------------------------------------
\* What client.pause / client.resume gives: a boolean, or an exception.
TransportAnswers == {"True", "False", "raise"}

\* lines 104-105, 110-111: db.playing is awaited before the transport is
\* asked, and nothing is written after the transport has answered.
CallsAfter_RolledBack(c, paused, answer) ==
    IF answer = "True" THEN playing(c, paused) ELSE calls
CallsAfter(c, paused, answer) == playing(c, paused)

\* lines 102-106
Pause(c, answer) ==
    /\ UNCHANGED <<ytVars, tgVars, botVars>>
    /\ calls' = CallsAfter(c, TRUE, answer)
    /\ pauseCall' = [op |-> "pause", chat |-> c, answer |-> answer,
                     before |-> calls[c], returned |-> answer]
    /\ UNCHANGED <<queue, media, locks, locked, stack, running, update, onAir>>
    /\ UNCHANGED <<volumeCall, detected>>

\* lines 108-112
Resume(c, answer) ==
    /\ UNCHANGED <<ytVars, tgVars, botVars>>
    /\ calls' = CallsAfter(c, FALSE, answer)
    /\ pauseCall' = [op |-> "resume", chat |-> c, answer |-> answer,
                     before |-> calls[c], returned |-> answer]
    /\ UNCHANGED <<queue, media, locks, locked, stack, running, update, onAir>>
    /\ UNCHANGED <<volumeCall, detected>>

PauseNext ==
    \/ \E c \in Chats, answer \in TransportAnswers : Pause(c, answer)
    \/ \E c \in Chats, answer \in TransportAnswers : Resume(c, answer)

\* Any persisted call state, nothing in flight.
PauseStart ==
    /\ queue = [c \in Chats |-> <<>>]
    /\ media = [m \in MediaIds |-> NoDescriptor]
    /\ calls \in [Chats -> {"none", "playing", "paused"}]
    /\ locks = [c \in Chats |-> NoLock]
    /\ locked = [l \in LockIds |-> FALSE]
    /\ stack = [t \in Tasks |-> <<>>]
    /\ running = 0
    /\ update = NoUpdate
    /\ onAir = [c \in Chats |-> FALSE]
    /\ AtRest
PauseSpec == PauseStart /\ [][PauseNext]_vars

PlaySucceeds(t) ==
    /\ ~Idle(t) /\ Len(stack'[t]) = Len(stack[t])
    /\ Top(t).op = "play_media" /\ Top(t).pc = "playing"
    /\ stack'[t][Len(stack[t])].pc \in {"seek_return", "card"}

\* C38: play_media performs the fresh-play state update exactly when the
\* stream it starts carries no seek filter: a successful play whose stream
\* has the -ss filter (seek_time > 1) returns with no add_call and the
\* descriptor untouched, and one whose stream has no filter marks the
\* descriptor started, calls add_call and goes on to render the card.
C38_UpdateIffNoFilter ==
    [][\A t \in Tasks : PlaySucceeds(t) =>
          IF HasSeekFilter(Top(t).seek)
          THEN /\ stack'[t][Len(stack[t])].pc = "seek_return"
               /\ calls' = calls
               /\ media' = media
          ELSE /\ stack'[t][Len(stack[t])].pc = "card"
               /\ media'[Top(t).m].time = 1
               /\ calls' = add_call(Top(t).chat)]_vars

(***************************************************************************)
(* download: what lies between two fetch attempts                          *)
(***************************************************************************)

\* Download d starts a further fetch attempt in this step.
NextAttempt(d) ==
    /\ dl[d].attempt >= 1
    /\ dl'[d].pc = "fetching" /\ dl'[d].attempt = dl[d].attempt + 1

\* C39: within one download call a further fetch attempt is made only after
\* the previous attempt raised an error and the backoff sleep that follows
\* it (RETRY_DELAY, or RETRY_DELAY times the attempt number) is over, and
\* no sleep follows the final attempt.
C39_BackoffBetweenAttempts ==
    [][\A d \in Downloads :
          /\ NextAttempt(d) =>
                /\ dl[d].pc = "sleeping"
                /\ dl[d].delay \in {RETRY_DELAY, RETRY_DELAY * dl[d].attempt}
          /\ dl'[d].pc = "sleeping" => dl'[d].attempt < MAX_RETRIES]_vars

====
